---- MODULE Spec2Model ----
(***************************************************************************)
(* Model of src/Model/dsl_v04_to_scad.py: the line parser `parse`, which   *)
(* builds a Model (symbol table of Parts and a list of Instances), and the *)
(* emitter `to_scad`, which turns a Model into OpenSCAD text.              *)
(*                                                                         *)
(* Text is modelled as a sequence of one-character strings, a source line  *)
(* as the sequence of its whitespace-separated tokens (raw.split()), and   *)
(* the emitted text as a sequence of lexical tokens (see Tok).             *)
(***************************************************************************)
EXTENDS Integers, Sequences, FiniteSets, TLC

VARIABLES
    parts,            \* Model.parts: key -> Part (a Python dict)
    order,            \* insertion order of the keys of Model.parts
    instances,        \* Model.instances
    cur,              \* parse: the open Part (<<>> is None, <<key>> a Part)
    pending_extrude,  \* parse: <<>> is None, <<h>> a pending height
    i,                \* parse: number of lines consumed
    pc,               \* "parse" | "parsed" | "emitted" | "raised"
    err,              \* the exception that ended the run, "" when none
    scad,             \* the text returned by to_scad / build_scad (tokens)
    v03_parts,        \* dsl_v03_to_scad: the module global `parts`
    v03_order,        \* insertion order of the keys of that dict
    scad_modules,     \* dsl_v03_to_scad: the module global `scad_modules`
    current_part,     \* parse_dsl: <<>> is None, <<name>> the open part
    current_shapes,   \* parse_dsl: the shapes of the open part
    in_extrude,       \* parse_dsl
    extrude_height,   \* parse_dsl
    source,           \* the lines of the source text compiled so far
    first             \* <<>>, or <<text>> the result of the first compilation

\* The state of dsl_v03_to_scad and of its caller
v03vars == <<v03_parts, v03_order, scad_modules, current_part, current_shapes,
             in_extrude, extrude_height, source, first>>

vars == <<parts, order, instances, cur, pending_extrude, i, pc, err, scad, v03vars>>

\* ------------------------------------------------------------------ bounds

\* Longest source text explored, in lines.
MaxLines == 4

\* Depth at which the emitter's recursion is cut off and reported as
\* unbounded (the interpreter's recursion limit, scaled to the model).
MaxDepth == 8

\* ------------------------------------------------------------------- text

LowerCase == <<"a","b","c","d","e","f","g","h","i","j","k","l","m",
               "n","o","p","q","r","s","t","u","v","w","x","y","z">>

UpperCase == <<"A","B","C","D","E","F","G","H","I","J","K","L","M",
               "N","O","P","Q","R","S","T","U","V","W","X","Y","Z">>

Digits == <<"0","1","2","3","4","5","6","7","8","9">>

IsLower(c) == \E k \in DOMAIN LowerCase : LowerCase[k] = c

IsUpper(c) == \E k \in DOMAIN UpperCase : UpperCase[k] = c

IsDigit(c) == \E k \in DOMAIN Digits : Digits[k] = c

IsLetter(c) == IsLower(c) \/ IsUpper(c)

\* [A-Za-z0-9_]
IsWordChar(c) == IsLetter(c) \/ IsDigit(c) \/ c = "_"

DigitVal(c) == (CHOOSE k \in DOMAIN Digits : Digits[k] = c) - 1

UpperChar(c) ==
    IF IsLower(c) THEN UpperCase[CHOOSE k \in DOMAIN LowerCase : LowerCase[k] = c]
    ELSE c

LowerChar(c) ==
    IF IsUpper(c) THEN LowerCase[CHOOSE k \in DOMAIN UpperCase : UpperCase[k] = c]
    ELSE c

\* str.upper()
Upper(s) == [k \in DOMAIN s |-> UpperChar(s[k])]

\* str.lower()
Lower(s) == [k \in DOMAIN s |-> LowerChar(s[k])]

RECURSIVE LStrip(_)
LStrip(s) == IF s # <<>> /\ Head(s) = " " THEN LStrip(Tail(s)) ELSE s

RECURSIVE RStrip(_)
RStrip(s) ==
    IF s # <<>> /\ s[Len(s)] = " " THEN RStrip(SubSeq(s, 1, Len(s) - 1)) ELSE s

\* str.strip()
Strip(s) == RStrip(LStrip(s))

\* str.rstrip(":")
RECURSIVE RStripColon(_)
RStripColon(s) ==
    IF s # <<>> /\ s[Len(s)] = ":" THEN RStripColon(SubSeq(s, 1, Len(s) - 1)) ELSE s

\* " ".join(toks)
RECURSIVE JoinSpace(_)
JoinSpace(toks) ==
    IF toks = <<>> THEN <<>>
    ELSE IF Len(toks) = 1 THEN toks[1]
    ELSE toks[1] \o <<" ">> \o JoinSpace(Tail(toks))

\* Position of the first "=" of a token, 0 when it has none.
EqPos(t) ==
    IF \E k \in DOMAIN t : t[k] = "="
    THEN CHOOSE k \in DOMAIN t : t[k] = "=" /\ \A j \in 1..(k - 1) : t[j] # "="
    ELSE 0

\* _sanitize without the p_ prefix
SanitizeNoPrefix(name) ==
    [k \in DOMAIN Strip(name) |-> IF IsWordChar(Strip(name)[k]) THEN Strip(name)[k] ELSE "_"]

\* _sanitize
Sanitize(name) ==
    LET s == Strip(name)
        r == [k \in DOMAIN s |-> IF IsWordChar(s[k]) THEN s[k] ELSE "_"]
    IN  IF r # <<>> /\ (IsLetter(r[1]) \/ r[1] = "_") THEN r
        ELSE <<"p", "_">> \o r

\* ----------------------------------------------------------------- values

\* A parameter value is a 3-vector, a float or an opaque string; IntV is a
\* Python int (the defaults written in the code), which prints without ".0".
IntV(n) == [t |-> "int", vec |-> <<>>, num |-> n, str |-> <<>>]

VecV(v) == [t |-> "vec", vec |-> v, num |-> 0, str |-> <<>>]

NumV(n) == [t |-> "num", vec |-> <<>>, num |-> n, str |-> <<>>]

StrV(s) == [t |-> "str", vec |-> <<>>, num |-> 0, str |-> s]

ZeroVec == <<0, 0, 0>>

\* Value of a run of digits.
RECURSIVE DigitsVal(_)
DigitsVal(s) ==
    IF s = <<>> THEN 0
    ELSE 10 * DigitsVal(SubSeq(s, 1, Len(s) - 1)) + DigitVal(s[Len(s)])

\* End of the run of digits that starts at position p of s (p - 1 when none).
RECURSIVE DigitRunEnd(_, _)
DigitRunEnd(s, p) ==
    IF p <= Len(s) /\ IsDigit(s[p]) THEN DigitRunEnd(s, p + 1) ELSE p - 1

\* re.findall(r"[-+]?\d*\.?\d+", s) from position p on, for texts without a
\* decimal point: each match is an optional sign directly followed by a
\* maximal run of digits; matches are leftmost and do not overlap.
RECURSIVE FindNums(_, _)
FindNums(s, p) ==
    IF p > Len(s) THEN <<>>
    ELSE IF IsDigit(s[p])
         THEN LET e == DigitRunEnd(s, p)
              IN  <<DigitsVal(SubSeq(s, p, e))>> \o FindNums(s, e + 1)
    ELSE IF s[p] \in {"-", "+"} /\ p < Len(s) /\ IsDigit(s[p + 1])
         THEN LET e == DigitRunEnd(s, p + 1)
                  n == DigitsVal(SubSeq(s, p + 1, e))
              IN  <<IF s[p] = "-" THEN 0 - n ELSE n>> \o FindNums(s, e + 1)
    ELSE FindNums(s, p + 1)

\* float(v) succeeds, for texts without a decimal point or exponent.
IsFloatText(s) ==
    LET body == IF s # <<>> /\ s[1] \in {"-", "+"} THEN Tail(s) ELSE s
    IN  body # <<>> /\ \A k \in DOMAIN body : IsDigit(body[k])

FloatOf(s) == FindNums(s, 1)[1]

\* _vec3 of dsl_v03_fixed: a vector only for exactly three numbers
SafeVec3TextExact(s) ==
    IF Len(FindNums(s, 1)) = 3 THEN FindNums(s, 1) ELSE ZeroVec

\* _safe_vec3 on a text
SafeVec3Text(s) ==
    LET nums == FindNums(s, 1)
    IN  IF Len(nums) >= 3 THEN <<nums[1], nums[2], nums[3]>> ELSE ZeroVec

\* _safe_vec3 on a value: a tuple unpacks; a float prints as one number; an
\* opaque string is searched for numbers.
SafeVec3(v) ==
    IF v.t = "vec" THEN v.vec
    ELSE IF v.t = "num" THEN ZeroVec
    ELSE SafeVec3Text(v.str)

\* dict.get(k, default) on a parameter mapping
Get(prm, k, default) == IF k \in DOMAIN prm THEN prm[k] ELSE default

\* out[k] = v
Put(prm, k, v) == [x \in (DOMAIN prm) \cup {k} |-> IF x = k THEN v ELSE prm[x]]

EmptyDict == [x \in {} |-> NumV(0)]

\* The value _params stores for the text v.
ParamValue(v) ==
    IF v # <<>> /\ v[1] \in {"(", "["} THEN VecV(SafeVec3Text(v))
    ELSE IF IsFloatText(v) THEN NumV(FloatOf(v))
    ELSE StrV(v)

\* _params
RECURSIVE Params(_)
Params(tokens) ==
    IF tokens = <<>> THEN EmptyDict
    ELSE LET t == tokens[Len(tokens)]
             rest == Params(SubSeq(tokens, 1, Len(tokens) - 1))
             e == EqPos(t)
         IN  IF e = 0 THEN rest
             ELSE Put(rest, SubSeq(t, 1, e - 1),
                      ParamValue(Strip(SubSeq(t, e + 1, Len(t)))))

\* ------------------------------------------------------- keywords, keys

KwPART == <<"P","A","R","T">>

KwGROUP == <<"G","R","O","U","P">>

KwUSE == <<"U","S","E">>

KwMOVE == <<"M","O","V","E">>

KwROTATE == <<"R","O","T","A","T","E">>

KwUNION == <<"U","N","I","O","N">>

KwCUT == <<"C","U","T">>

KwINTERSECT == <<"I","N","T","E","R","S","E","C","T">>

KwEXTRUDE == <<"E","X","T","R","U","D","E">>

KwAS == <<"A","S">>

KeyPosition == <<"p","o","s","i","t","i","o","n">>

KeyRotate == <<"r","o","t","a","t","e">>

KeyScale == <<"s","c","a","l","e">>

KeyBy == <<"b","y">>

KeyHeight == <<"h","e","i","g","h","t">>

KeyWidth == <<"w","i","d","t","h">>

KeyDepth == <<"d","e","p","t","h">>

KeyRadius == <<"r","a","d","i","u","s">>

KeyChamfer == <<"c","h","a","m","f","e","r">>

KeyLength == <<"l","e","n","g","t","h">>

KeyOrientation == <<"o","r","i","e","n","t","a","t","i","o","n">>

KeyMajorRadius == <<"m","a","j","o","r","_","r","a","d","i","u","s">>

KeyMinorRadius == <<"m","i","n","o","r","_","r","a","d","i","u","s">>

KindCUBE == <<"C","U","B","E">>

KindCYLINDER == <<"C","Y","L","I","N","D","E","R">>

KindSPHERE == <<"S","P","H","E","R","E">>

KindROD == <<"R","O","D">>

KindTORUS == <<"T","O","R","U","S">>

KindCIRCLE == <<"C","I","R","C","L","E">>

\* -------------------------------------------------------------------- AST

\* None
None == <<>>

\* Optional value v
Some(v) == <<v>>

\* Prim(kind, params)
Prim(kind, params) == [node |-> "Prim", kind |-> Upper(kind), params |-> params]

\* Use(name, translate, rotate, scale)
Use(name, translate, rotate, scale) ==
    [node |-> "Use", name |-> Sanitize(name), translate |-> translate,
     rotate |-> rotate, scale |-> scale]

\* Use(name): the defaults of Use.__init__
UseDefault(name) == Use(name, VecV(ZeroVec), VecV(ZeroVec), None)

\* Extrude(height, child2d)
Extrude(height, child2d) ==
    [node |-> "Extrude", height |-> height, child2d |-> child2d]

\* Boolean(op, left, right)
Boolean(op, left, right) ==
    [node |-> "Boolean", op |-> op, left |-> left, right |-> right]

\* MultiUnion(names)
MultiUnion(names) ==
    [node |-> "MultiUnion", names |-> [k \in DOMAIN names |-> Sanitize(names[k])]]

\* Part(name)
Part(name) == [name |-> Sanitize(name), nodes |-> <<>>, is_boolean |-> FALSE]

\* Instance(target, translate, rotate, scale, label): label is never empty
\* at the call sites, so `label or target` is label.
Instance(target, translate, rotate, scale, label) ==
    [target |-> Sanitize(target), translate |-> translate, rotate |-> rotate,
     scale |-> scale, label |-> IF label # <<>> THEN label ELSE target]

\* Model.get_or_create on the pair (parts, order)
GetOrCreateKey(name) == Sanitize(name)

\* A Part made anew on every call, the entry of the table overwritten
GetOrCreatePartsFresh(ps, name) ==
    [x \in (DOMAIN ps) \cup {GetOrCreateKey(name)} |->
        IF x = GetOrCreateKey(name) THEN Part(x) ELSE ps[x]]

GetOrCreateParts(ps, name) ==
    LET key == GetOrCreateKey(name)
    IN  IF key \in DOMAIN ps THEN ps
        ELSE [x \in (DOMAIN ps) \cup {key} |-> IF x = key THEN Part(key) ELSE ps[x]]

\* Mutant of GetOrCreateOrder: the test `key not in self.parts` is lost
GetOrCreateOrderAlways(ps, ord, name) == Append(ord, GetOrCreateKey(name))

GetOrCreateOrder(ps, ord, name) ==
    LET key == GetOrCreateKey(name)
    IN  IF key \in DOMAIN ps THEN ord ELSE Append(ord, key)

\* ----------------------------------------------------------------- parser

KnownHeads == {KwPART, KwGROUP, KwUSE, KwMOVE, KwROTATE, KwUNION, KwCUT,
               KwINTERSECT, KwEXTRUDE}

\* `not raw or raw.startswith("#")`
IsSkipped(toks) == IF toks = <<>> THEN TRUE ELSE toks[1][1] = "#"

\* head = toks[0].upper()
HeadOf(toks) == Upper(toks[1])

\* end_part() that leaves the part open
EndPartKeepsOpen == cur

\* end_part(): the value of cur afterwards
EndPart == None

\* raw.split(None, 1)[1]: the text after the first token
RestOf(toks) == JoinSpace(Tail(toks))

\* One iteration of the while loop has read a line.
Reading == pc = "parse" /\ i < MaxLines

\* The line raised: parse is left by the exception and returns no Model.
Raise(e) ==
    /\ pc' = "raised"
    /\ err' = e
    /\ UNCHANGED <<parts, order, instances, pending_extrude, scad>>

\* blank line or comment: `continue`
SkipLine(toks) ==
    /\ Reading
    /\ IsSkipped(toks)
    /\ i' = i + 1
    /\ UNCHANGED <<parts, order, instances, cur, pending_extrude, pc, err, scad>>
    /\ UNCHANGED v03vars

\* PART name: / GROUP name:
PartLine(toks) ==
    /\ Reading
    /\ ~IsSkipped(toks)
    /\ HeadOf(toks) \in {KwPART, KwGROUP}
    /\ i' = i + 1
    /\ IF Len(toks) < 2
       THEN cur' = EndPart /\ Raise("IndexError")
       ELSE LET name == RStripColon(Strip(RestOf(toks)))
            IN  /\ parts' = GetOrCreateParts(parts, name)
                /\ order' = GetOrCreateOrder(parts, order, name)
                /\ cur' = Some(GetOrCreateKey(name))
                /\ UNCHANGED <<instances, pending_extrude, pc, err, scad>>
    /\ UNCHANGED v03vars

\* USE name [position=..] [rotate=..] [scale=..]
UseLine(toks) ==
    /\ Reading
    /\ ~IsSkipped(toks)
    /\ HeadOf(toks) = KwUSE
    /\ i' = i + 1
    /\ LET cur1 == EndPart
       IN  IF Len(toks) < 2
           THEN cur' = cur1 /\ Raise("IndexError")
           ELSE LET name == toks[2]
                    prm == Params(SubSeq(toks, 3, Len(toks)))
                    pos == Get(prm, KeyPosition, VecV(ZeroVec))
                    rot == Get(prm, KeyRotate, VecV(ZeroVec))
                    scale == IF KeyScale \in DOMAIN prm THEN Some(prm[KeyScale]) ELSE None
                IN  /\ cur' = cur1
                    /\ IF cur1 # None
                       THEN /\ parts' = [parts EXCEPT ![cur1[1]].nodes =
                                           Append(@, Use(name, pos, rot, scale))]
                            /\ UNCHANGED instances
                       ELSE /\ instances' = Append(instances,
                                   Instance(name, pos, rot, scale, KwUSE \o <<" ">> \o name))
                            /\ UNCHANGED parts
                    /\ UNCHANGED <<order, pending_extrude, pc, err, scad>>
    /\ UNCHANGED v03vars

\* MOVE name by=(dx,dy,dz)
MoveLine(toks) ==
    /\ Reading
    /\ ~IsSkipped(toks)
    /\ HeadOf(toks) = KwMOVE
    /\ i' = i + 1
    /\ cur' = EndPart
    /\ IF Len(toks) < 2
       THEN Raise("IndexError")
       ELSE LET name == toks[2]
                prm == Params(SubSeq(toks, 3, Len(toks)))
                by == Get(prm, KeyBy, VecV(ZeroVec))
            IN  /\ instances' = Append(instances,
                       Instance(name, by, VecV(ZeroVec), None, KwMOVE \o <<" ">> \o name))
                /\ UNCHANGED <<parts, order, pending_extrude, pc, err, scad>>
    /\ UNCHANGED v03vars

\* ROTATE name by=(rx,ry,rz)
RotateLine(toks) ==
    /\ Reading
    /\ ~IsSkipped(toks)
    /\ HeadOf(toks) = KwROTATE
    /\ i' = i + 1
    /\ cur' = EndPart
    /\ IF Len(toks) < 2
       THEN Raise("IndexError")
       ELSE LET name == toks[2]
                prm == Params(SubSeq(toks, 3, Len(toks)))
                by == Get(prm, KeyBy, VecV(ZeroVec))
            IN  /\ instances' = Append(instances,
                       Instance(name, VecV(ZeroVec), by, None, KwROTATE \o <<" ">> \o name))
                /\ UNCHANGED <<parts, order, pending_extrude, pc, err, scad>>
    /\ UNCHANGED v03vars

\* Longest prefix of t made of [A-Za-z0-9_]
RECURSIVE WordPrefix(_)
WordPrefix(t) ==
    IF t # <<>> /\ IsWordChar(t[1]) THEN <<t[1]>> \o WordPrefix(Tail(t)) ELSE <<>>

IsWord(t) == t # <<>> /\ \A k \in DOMAIN t : IsWordChar(t[k])

\* re.match(r"\s*(\w+)\s+(\w+)\s+AS\s+(\w+)", rest, re.I) on the tokens of
\* rest: two whole-word tokens, the token AS, and a token that starts with
\* a word character (the third group is its longest word prefix).
BoolMatch(rest) ==
    /\ Len(rest) >= 4
    /\ IsWord(rest[1])
    /\ IsWord(rest[2])
    /\ Upper(rest[3]) = KwAS
    /\ WordPrefix(rest[4]) # <<>>

\* Every boolean line stored as a union
OpOfUnion(head) == "union"

\* "union" if head == "UNION" else "difference" if head == "CUT" else "intersection"
OpOf(head) ==
    IF head = KwUNION THEN "union"
    ELSE IF head = KwCUT THEN "difference"
    ELSE "intersection"

\* What a boolean line would store if operands were looked up while parsing
BoolOperandResolved(ps, name) ==
    IF GetOrCreateKey(name) \in DOMAIN ps THEN UseDefault(name)
    ELSE UseDefault(<<"u","n","d","e","f">>)

\* Use(a), Use(b) of a boolean line: the operand keeps the name only, the
\* symbol table ps is not consulted
BoolOperand(ps, name) == UseDefault(name)

\* UNION A B AS C / CUT A B AS C / INTERSECT A B AS C
BoolLine(toks) ==
    /\ Reading
    /\ ~IsSkipped(toks)
    /\ HeadOf(toks) \in {KwUNION, KwCUT, KwINTERSECT}
    /\ i' = i + 1
    /\ IF Len(toks) < 2
       THEN UNCHANGED cur /\ Raise("IndexError")
       ELSE LET rest == Tail(toks)
            IN  IF BoolMatch(rest)
                THEN LET a == rest[1]
                         b == rest[2]
                         c == WordPrefix(rest[4])
                         ps == GetOrCreateParts(parts, c)
                         key == GetOrCreateKey(c)
                     IN  /\ parts' = [ps EXCEPT
                               ![key].is_boolean = TRUE,
                               ![key].nodes = <<Boolean(OpOf(HeadOf(toks)),
                                                       BoolOperand(parts, a), BoolOperand(parts, b))>>]
                         /\ order' = GetOrCreateOrder(parts, order, c)
                         /\ UNCHANGED <<instances, cur, pending_extrude, pc, err, scad>>
                ELSE UNCHANGED <<parts, order, instances, cur, pending_extrude,
                                 pc, err, scad>>
    /\ UNCHANGED v03vars

\* Default height of EXTRUDE
DefaultExtrude == 10

\* EXTRUDE height=h:
ExtrudeLine(toks) ==
    /\ Reading
    /\ ~IsSkipped(toks)
    /\ HeadOf(toks) = KwEXTRUDE
    /\ i' = i + 1
    /\ LET prm == Params(Tail(toks))
           h == Get(prm, KeyHeight, NumV(DefaultExtrude))
       IN  pending_extrude' = Some(IF h.t = "num" THEN h.num ELSE DefaultExtrude)
    /\ UNCHANGED <<parts, order, instances, cur, pc, err, scad>>
    /\ UNCHANGED v03vars

\* Any other line: a primitive of the open part, or ignored at top level.
PrimLine(toks) ==
    /\ Reading
    /\ ~IsSkipped(toks)
    /\ HeadOf(toks) \notin KnownHeads
    /\ i' = i + 1
    /\ IF cur # None
       THEN LET prim == Prim(toks[1], Params(Tail(toks)))
            IN  IF pending_extrude # None
                THEN /\ parts' = [parts EXCEPT ![cur[1]].nodes =
                                    Append(@, Extrude(pending_extrude[1], prim))]
                     /\ pending_extrude' = None
                ELSE /\ parts' = [parts EXCEPT ![cur[1]].nodes = Append(@, prim)]
                     /\ UNCHANGED pending_extrude
       ELSE UNCHANGED <<parts, pending_extrude>>
    /\ UNCHANGED <<order, instances, cur, pc, err, scad>>
    /\ UNCHANGED v03vars

\* The text is exhausted: `return m`
ParseReturn ==
    /\ pc = "parse"
    /\ pc' = "parsed"
    /\ UNCHANGED <<parts, order, instances, cur, pending_extrude, i, err, scad>>
    /\ UNCHANGED v03vars

\* ---------------------------------------------------------------- emitter

\* One lexical token of the emitted text: its kind, a name or text, and its
\* arguments. Kinds: "translate" "rotate" "scale" "call" ";" "{" "}" "nl"
\* "module" "union" "difference" "intersection" "cycle" (the line comment
\* `// Cycle detected: s`), "unknown_prim" (the line comment
\* `// Unknown primitive s;`), the primitives' shapes, "header", "fn",
\* "instance_comment".
Tok(k, s, a) == [k |-> k, s |-> s, a |-> a]

T0(k) == Tok(k, <<>>, <<>>)

\* "\n" followed by the indentation
NL == T0("nl")

\* text.strip() is empty
IsBlank(toks) == \A k \in DOMAIN toks : toks[k].k = "nl"

\* Index of the last token that is not white space, 0 when none
LastInk(toks) ==
    IF IsBlank(toks) THEN 0
    ELSE CHOOSE k \in DOMAIN toks :
            toks[k].k # "nl" /\ \A j \in (k + 1)..Len(toks) : toks[j].k = "nl"

\* text.strip().endswith(";")
EndsWithSemi(toks) ==
    LastInk(toks) # 0 /\ toks[LastInk(toks)].k \in {";", "unknown_prim"}

\* _pos_str
PosStr(v) == VecV(SafeVec3(v))

\* A wrapper for every chamfer that is given, zero included
ChamferWrapUnlessNone(obj, chamfer) ==
    IF chamfer = None THEN obj
    ELSE <<T0("minkowski"), T0("{")>> \o obj
         \o <<Tok("chamfer_cylinder", <<>>, <<NumV(chamfer[1])>>), T0(";"), T0("}")>>

\* _chamfer_wrap
ChamferWrap(obj, chamfer) ==
    IF chamfer = None \/ chamfer[1] = 0 THEN obj
    ELSE <<T0("minkowski"), T0("{")>> \o obj
         \o <<Tok("chamfer_cylinder", <<>>, <<NumV(chamfer[1])>>), T0(";"), T0("}")>>

\* The chamfer of a primitive: float(chamfer) when that succeeds, else None
ChamferOf(prm) ==
    IF KeyChamfer \in DOMAIN prm /\ prm[KeyChamfer].t \in {"num", "int"}
    THEN Some(prm[KeyChamfer].num)
    ELSE None

AxisX == <<"x">>

AxisY == <<"y">>

\* str(prm.get("orientation", "z")).lower() of a ROD
OrientOf(prm) ==
    LET o == Get(prm, KeyOrientation, StrV(<<"z">>))
    IN  IF o.t = "str" THEN Lower(o.str) ELSE <<>>

\* _emit_primitive_scad
EmitPrimitive(p) ==
    LET prm == p.params
        pos == Tok("translate", <<>>, <<PosStr(Get(prm, KeyPosition, VecV(ZeroVec)))>>)
    IN  IF p.kind = KindCUBE
        THEN ChamferWrap(<<pos, Tok("cube", <<>>, <<Get(prm, KeyWidth, IntV(10)),
                                 Get(prm, KeyDepth, IntV(10)),
                                 Get(prm, KeyHeight, IntV(10))>>), T0(";")>>,
                         ChamferOf(prm))
        ELSE IF p.kind = KindCYLINDER
        THEN ChamferWrap(<<pos, Tok("cylinder", <<>>, <<Get(prm, KeyRadius, IntV(5)),
                                 Get(prm, KeyHeight, IntV(10))>>), T0(";")>>,
                         ChamferOf(prm))
        ELSE IF p.kind = KindSPHERE
        THEN <<pos, Tok("sphere", <<>>, <<Get(prm, KeyRadius, IntV(5))>>), T0(";")>>
        ELSE IF p.kind = KindROD
        THEN <<pos>>
             \o (IF OrientOf(prm) = AxisX
                 THEN <<Tok("rotate", <<>>, <<IntV(0), IntV(90), IntV(0)>>)>>
                 ELSE IF OrientOf(prm) = AxisY
                 THEN <<Tok("rotate", <<>>, <<IntV(90), IntV(0), IntV(0)>>)>>
                 ELSE <<>>)
             \o <<Tok("cylinder", <<>>, <<Get(prm, KeyRadius, IntV(3)),
                                         Get(prm, KeyLength, IntV(30))>>), T0(";")>>
        ELSE IF p.kind = KindTORUS
        THEN <<pos, Tok("rotate_extrude", <<>>, <<Get(prm, KeyMajorRadius, IntV(20))>>),
               Tok("circle", <<>>, <<Get(prm, KeyMinorRadius, IntV(5))>>), T0(";")>>
        ELSE IF p.kind = KindCIRCLE
        THEN LET v == SafeVec3(Get(prm, KeyPosition, VecV(ZeroVec)))
             IN  <<Tok("translate2", <<>>, <<VecV(<<v[1], v[2]>>)>>),
                   Tok("circle", <<>>, <<Get(prm, KeyRadius, IntV(10))>>), T0(";")>>
        ELSE <<Tok("unknown_prim", p.kind, <<>>)>>

\* `tmp if tmp.strip().endswith(";") else tmp + ";"`
WithSemi(toks) == IF EndsWithSemi(toks) THEN toks ELSE Append(toks, T0(";"))

\* Result of an emission step: the text, the set `visited` as the step
\* leaves it, whether a KeyError was raised, and whether the recursion ran
\* past MaxDepth.
Res(out, vis) == [out |-> out, vis |-> vis, err |-> FALSE, deep |-> FALSE]

Failed(r) == r.err \/ r.deep

\* Mutant of InVisited: the membership test is lost
InVisitedNever(u, visited) == FALSE

\* `u.name in visited`
InVisited(u, visited) == u.name \in visited

\* visited.add(u.name)
VisitedAdd(visited, name) == visited \cup {name}

\* visited is left as it is when the expansion returns
VisitedRemoveNever(visited, name) == visited

\* visited.remove(u.name)
VisitedRemove(visited, name) == visited \ {name}

\* Mutant of CallOrInner: the reference call is emitted although the part
\* was inlined
CallOrInnerAlwaysCall(u, inline, inner) == <<Tok("call", u.name, <<>>), T0(";")>>

\* `call = inner if inner.strip() else f"{u.name}();"`
CallOrInner(u, inline, inner) ==
    IF inline /\ ~IsBlank(inner) THEN inner
    ELSE <<Tok("call", u.name, <<>>), T0(";")>>

\* Mutant of ScaleWrap: a unit scale is not wrapped
ScaleWrapUnlessUnit(x, call) ==
    IF x.scale # None /\ x.scale[1].num # 1
    THEN <<Tok("scale", <<>>, <<x.scale[1]>>)>> \o call
    ELSE call

\* The scale wrapper of a Use or Instance x around call
ScaleWrap(x, call) ==
    IF x.scale # None THEN <<Tok("scale", <<>>, <<x.scale[1]>>)>> \o call ELSE call

\* Mutant of RotateWrap: a zero rotation is wrapped as well
RotateWrapAlways(x, call) ==
    <<Tok("rotate", <<>>, <<VecV(SafeVec3(x.rotate))>>)>> \o call

\* The rotate wrapper of a Use or Instance x around call
RotateWrap(x, call) ==
    IF SafeVec3(x.rotate) # ZeroVec
    THEN <<Tok("rotate", <<>>, <<VecV(SafeVec3(x.rotate))>>)>> \o call
    ELSE call

\* The translate wrapper of a Use u around call
UseTranslateWrap(u, call) == <<Tok("translate", <<>>, <<PosStr(u.translate)>>)>> \o call

\* Mutant of UseTransforms: rotate is applied before scale
UseTransformsRotateFirst(u, call) == UseTranslateWrap(u, ScaleWrap(u, RotateWrap(u, call)))

\* "Apply transforms" of _emit_use_scad
UseTransforms(u, call) == UseTranslateWrap(u, RotateWrap(u, ScaleWrap(u, call)))

\* The text pre + r + post of a step r that returned; an exception raised
\* in r leaves the caller at once
Wrap(pre, r, post) ==
    IF Failed(r) THEN r ELSE Res(pre \o r.out \o post, r.vis)

\* Two steps in a row, the second running on the `visited` the first left:
\* their texts one after the other, or the first exception raised
Both(a, b) ==
    IF Failed(a) THEN a
    ELSE IF Failed(b) THEN b
    ELSE Res(a.out \o b.out, b.vis)

\* The separator "\n  " that str.join puts after every item but the last
Sep(last) == IF last THEN <<>> ELSE <<NL>>

\* The end of _emit_use_scad, once the body `inner` of the part is emitted:
\* the transforms around the call, the closing ";", visited.remove(u.name)
UseResult(u, inline, inner) ==
    IF Failed(inner) THEN inner
    ELSE Res(WithSemi(UseTransforms(u, CallOrInner(u, inline, inner.out))),
             VisitedRemove(inner.vis, u.name))

RECURSIVE EmitUse(_, _, _, _, _)
RECURSIVE EmitNodesFrom(_, _, _, _, _, _)
RECURSIVE EmitMulti(_, _, _, _, _)

\* The item _emit_nodes appends for node n
EmitNode(ps, n, inline, visited, fuel) ==
    IF n.node = "Prim" THEN Res(WithSemi(EmitPrimitive(n)), visited)
    ELSE IF n.node = "Use" THEN EmitUse(ps, n, inline, visited, fuel)
    ELSE IF n.node = "Extrude"
    THEN Res(<<Tok("linear_extrude", <<>>, <<NumV(n.height)>>), T0("{")>>
             \o EmitPrimitive(n.child2d) \o <<T0("}"), T0(";")>>, visited)
    ELSE IF n.node = "Boolean"
    THEN Wrap(<<T0(n.op), T0("{")>>,
              LET a == EmitUse(ps, n.left, TRUE, visited, fuel)
              IN  Both(a, EmitUse(ps, n.right, TRUE, a.vis, fuel)),
              <<T0("}")>>)
    ELSE IF n.node = "MultiUnion"
    THEN Wrap(<<T0("union"), T0("{"), NL>>,
              EmitMulti(ps, n.names, 1, visited, fuel),
              <<NL, T0("}")>>)
    ELSE Res(<<T0("unknown_node")>>, visited)

\* The children of a MultiUnion from the k-th name on, joined by "\n  "
EmitMulti(ps, names, k, visited, fuel) ==
    IF k > Len(names) THEN Res(<<>>, visited)
    ELSE LET a == EmitUse(ps, UseDefault(names[k]), TRUE, visited, fuel)
         IN  Both(a, Wrap(Sep(k = Len(names)),
                          EmitMulti(ps, names, k + 1, a.vis, fuel), <<>>))

\* _emit_nodes from the k-th node on: the items joined by "\n  "
EmitNodesFrom(ps, nodes, k, inline, visited, fuel) ==
    IF k > Len(nodes) THEN Res(<<>>, visited)
    ELSE LET a == EmitNode(ps, nodes[k], inline, visited, fuel)
         IN  Both(a, Wrap(Sep(k = Len(nodes)),
                          EmitNodesFrom(ps, nodes, k + 1, inline, a.vis, fuel), <<>>))

\* _emit_nodes
EmitNodes(ps, nodes, inline, visited, fuel) ==
    EmitNodesFrom(ps, nodes, 1, inline, visited, fuel)

\* _emit_use_scad; model.parts[u.name] raises KeyError for an unknown name
EmitUse(ps, u, inline, visited, fuel) ==
    IF fuel = 0 THEN [out |-> <<>>, vis |-> visited, err |-> FALSE, deep |-> TRUE]
    ELSE IF InVisited(u, visited) THEN Res(<<Tok("cycle", u.name, <<>>)>>, visited)
    ELSE IF inline /\ u.name \notin DOMAIN ps
    THEN [out |-> <<>>, vis |-> VisitedAdd(visited, u.name), err |-> TRUE, deep |-> FALSE]
    ELSE UseResult(u, inline,
                   IF inline
                   THEN EmitNodes(ps, ps[u.name].nodes, TRUE,
                                  VisitedAdd(visited, u.name), fuel - 1)
                   ELSE Res(<<>>, VisitedAdd(visited, u.name)))

\* module_scad: visited starts as a fresh set
ModuleScad(ps, part) ==
    Wrap(<<Tok("module", part.name, <<>>), T0("{"), NL>>,
         EmitNodes(ps, part.nodes, part.is_boolean, {}, MaxDepth),
         <<NL, T0("}"), NL>>)

\* The modules of the parts ord[k..], each followed by the "\n" that joins
\* the pieces
RECURSIVE Modules(_, _, _)
Modules(ps, ord, k) ==
    IF k > Len(ord) THEN Res(<<>>, {})
    ELSE Both(Wrap(<<>>, ModuleScad(ps, ps[ord[k]]), <<NL>>), Modules(ps, ord, k + 1))

\* x += 140.0
LayoutStep == 140

AssemblyName == <<"a","s","s","e","m","b","l","y">>

\* Mutant of LayoutWrap: x is never advanced
LayoutWrapAtOrigin(x, inst, call) ==
    <<Tok("translate", <<>>, <<NumV(0), IntV(0), IntV(0)>>)>> \o call

\* The translate that to_scad puts around an instance's call:
\* translate([{x},0,0])
LayoutWrap(x, inst, call) ==
    <<Tok("translate", <<>>, <<NumV(x), IntV(0), IntV(0)>>)>> \o call

\* The two pieces to_scad appends for the idx-th instance, placed at x
InstancePieces(inst, idx, x) ==
    <<Tok("instance_comment", inst.label, <<IntV(idx)>>), NL>>
    \o LayoutWrap(x, inst,
           RotateWrap(inst, ScaleWrap(inst, <<Tok("call", inst.target, <<>>), T0(";")>>)))
    \o <<NL>>

RECURSIVE Assembly(_, _)
Assembly(insts, k) ==
    IF k > Len(insts) THEN <<>>
    ELSE InstancePieces(insts[k], k, (k - 1) * LayoutStep) \o Assembly(insts, k + 1)

\* to_scad
ToScadText(ps, ord, insts) ==
    Wrap(<<T0("header"), NL, T0("fn"), T0(";"), NL, NL>>,
         Modules(ps, ord, 1),
         <<Tok("module", AssemblyName, <<>>), T0("{"), NL>>
         \o Assembly(insts, 1)
         \o <<T0("}"), NL, Tok("call", AssemblyName, <<>>), T0(";")>>)

\* scad = to_scad(model)
ToScad ==
    /\ pc = "parsed"
    /\ \E r \in {ToScadText(parts, order, instances)} :
           /\ pc' = IF Failed(r) THEN "raised" ELSE "emitted"
           /\ err' = IF r.deep THEN "RecursionError" ELSE IF r.err THEN "KeyError" ELSE ""
           /\ scad' = IF Failed(r) THEN <<>> ELSE r.out
    /\ UNCHANGED <<parts, order, instances, cur, pending_extrude, i>>
    /\ UNCHANGED v03vars

\* ----------------------------------------------------------- source lines

\* The lines a source text is drawn from, each as raw.split() gives it.

\* blank lines and comments:
\*   ''
\*   '# a'
SkippedLines ==
    {<<>>,
     <<<<"#">>, <<"a">>>>}

\* PART / GROUP lines; the bare keyword has no name:
\*   'PART a:'
\*   'GROUP b:'
\*   'part a:'
\*   'PART'
PartLines ==
    {<<<<"P","A","R","T">>, <<"a",":">>>>,
     <<<<"G","R","O","U","P">>, <<"b",":">>>>,
     <<<<"p","a","r","t">>, <<"a",":">>>>,
     <<<<"P","A","R","T">>>>}

\* USE lines:
\*   'USE a'
\*   'USE b position=(1,2,3) rotate=(0,0,90) scale=2'
\*   'USE 1-a scale=1'
\*   'USE assembly'
\*   'USE'
UseLines ==
    {<<<<"U","S","E">>, <<"a">>>>,
     <<<<"U","S","E">>, <<"b">>, <<"p","o","s","i","t","i","o","n","=","(","1",",","2",",","3",")">>, <<"r","o","t","a","t","e","=","(","0",",","0",",","9","0",")">>, <<"s","c","a","l","e","=","2">>>>,
     <<<<"U","S","E">>, <<"1","-","a">>, <<"s","c","a","l","e","=","1">>>>,
     <<<<"U","S","E">>, AssemblyName>>,
     <<<<"U","S","E">>>>}

\* MOVE lines:
\*   'MOVE a by=(1,2,3)'
\*   'MOVE'
MoveLines ==
    {<<<<"M","O","V","E">>, <<"a">>, <<"b","y","=","(","1",",","2",",","3",")">>>>,
     <<<<"M","O","V","E">>>>}

\* ROTATE lines:
\*   'ROTATE b by=(0,0,90)'
\*   'ROTATE'
RotateLines ==
    {<<<<"R","O","T","A","T","E">>, <<"b">>, <<"b","y","=","(","0",",","0",",","9","0",")">>>>,
     <<<<"R","O","T","A","T","E">>>>}

\* UNION / CUT / INTERSECT lines, well-formed and not:
\*   'CUT a b AS c'
\*   'INTERSECT a a AS b'
\*   'UNION c a AS a'
\*   'UNION a a AS a'
\*   'UNION a b'
\*   'UNION'
BoolLines ==
    {<<<<"C","U","T">>, <<"a">>, <<"b">>, <<"A","S">>, <<"c">>>>,
     <<<<"I","N","T","E","R","S","E","C","T">>, <<"a">>, <<"a">>, <<"A","S">>, <<"b">>>>,
     <<<<"U","N","I","O","N">>, <<"c">>, <<"a">>, <<"A","S">>, <<"a">>>>,
     <<<<"U","N","I","O","N">>, <<"a">>, <<"a">>, <<"A","S">>, <<"a">>>>,
     <<<<"U","N","I","O","N">>, <<"a">>, <<"b">>>>,
     <<<<"U","N","I","O","N">>>>}

\* EXTRUDE lines:
\*   'EXTRUDE height=5'
\*   'EXTRUDE height=5:'
ExtrudeLines ==
    {<<<<"E","X","T","R","U","D","E">>, <<"h","e","i","g","h","t","=","5">>>>,
     <<<<"E","X","T","R","U","D","E">>, <<"h","e","i","g","h","t","=","5",":">>>>}

\* primitive lines and a line of an unknown kind:
\*   'CUBE width=2 chamfer=1'
\*   'CIRCLE radius=2'
\*   'FOO'
PrimLines ==
    {<<<<"C","U","B","E">>, <<"w","i","d","t","h","=","2">>, <<"c","h","a","m","f","e","r","=","1">>>>,
     <<<<"C","I","R","C","L","E">>, <<"r","a","d","i","u","s","=","2">>>>,
     <<<<"F","O","O">>>>}

Lines == SkippedLines \cup PartLines \cup UseLines \cup MoveLines \cup RotateLines
         \cup BoolLines \cup ExtrudeLines \cup PrimLines

\* dsl_v03_to_scad as the interpreter leaves it after `import`: both
\* registries empty, nothing compiled
V03Fresh ==
    /\ v03_parts = <<>>
    /\ v03_order = <<>>
    /\ scad_modules = <<>>
    /\ current_part = None
    /\ current_shapes = <<>>
    /\ in_extrude = FALSE
    /\ extrude_height = IntV(0)
    /\ source = <<>>
    /\ first = None

\* ---------------------------------------------------------- specification

\* m = Model(); i = 0; cur = None; pending_extrude = None
Init ==
    /\ parts = <<>>
    /\ order = <<>>
    /\ instances = <<>>
    /\ cur = None
    /\ pending_extrude = None
    /\ i = 0
    /\ pc = "parse"
    /\ err = ""
    /\ scad = <<>>
    /\ V03Fresh

\* parse(text) line by line, then to_scad on the Model it returns.
Next ==
    \/ \E toks \in Lines : SkipLine(toks)
    \/ \E toks \in Lines : PartLine(toks)
    \/ \E toks \in Lines : UseLine(toks)
    \/ \E toks \in Lines : MoveLine(toks)
    \/ \E toks \in Lines : RotateLine(toks)
    \/ \E toks \in Lines : BoolLine(toks)
    \/ \E toks \in Lines : ExtrudeLine(toks)
    \/ \E toks \in Lines : PrimLine(toks)
    \/ ParseReturn
    \/ ToScad

Spec == Init /\ [][Next]_vars

\* ------------------------------------------- a Model built by its classes

\* A caller builds the Model with Model.get_or_create and the node classes
\* instead of parse, then hands it to to_scad.  Here i counts the calls made.

MaxCalls == 4

ApiNames == {<<"a">>, <<"b">>}

\* (translate, rotate, scale) of a Use or an Instance: the defaults; all
\* three given; unit scale alone; a translate alone
ApiTransforms ==
    {<<VecV(ZeroVec), VecV(ZeroVec), None>>,
     <<VecV(<<1, 2, 3>>), VecV(<<0, 0, 90>>), Some(NumV(2))>>,
     <<VecV(ZeroVec), VecV(ZeroVec), Some(IntV(1))>>,
     <<VecV(<<1, 2, 3>>), VecV(ZeroVec), None>>}

\* Operand transforms of a Boolean built by the caller
ApiOperandTransforms ==
    {<<VecV(ZeroVec), VecV(ZeroVec), None>>,
     <<VecV(<<1, 2, 3>>), VecV(<<0, 0, 90>>), Some(NumV(2))>>}

ApiNameLists == {<<<<"a">>>>, <<<<"a">>, <<"b">>>>}

Building == pc = "build" /\ i < MaxCalls

\* m.get_or_create(name)
ApiGetOrCreate(name) ==
    /\ Building
    /\ i' = i + 1
    /\ parts' = GetOrCreateParts(parts, name)
    /\ order' = GetOrCreateOrder(parts, order, name)
    /\ UNCHANGED <<instances, cur, pending_extrude, pc, err, scad>>
    /\ UNCHANGED v03vars

\* m.parts[key].nodes.append(Prim("CUBE", {}))
ApiAppendPrim(key) ==
    /\ Building
    /\ key \in DOMAIN parts
    /\ i' = i + 1
    /\ parts' = [parts EXCEPT ![key].nodes = Append(@, Prim(KindCUBE, EmptyDict))]
    /\ UNCHANGED <<order, instances, cur, pending_extrude, pc, err, scad>>
    /\ UNCHANGED v03vars

\* m.parts[key].nodes.append(Use(name, translate, rotate, scale))
ApiAppendUse(key, name, tr) ==
    /\ Building
    /\ key \in DOMAIN parts
    /\ i' = i + 1
    /\ parts' = [parts EXCEPT ![key].nodes = Append(@, Use(name, tr[1], tr[2], tr[3]))]
    /\ UNCHANGED <<order, instances, cur, pending_extrude, pc, err, scad>>
    /\ UNCHANGED v03vars

\* p = m.parts[key]; p.is_boolean = True;
\* p.nodes = [Boolean("union", Use(a, translate, rotate, scale), Use(b))]
ApiSetBoolean(key, a, tr, b) ==
    /\ Building
    /\ key \in DOMAIN parts
    /\ i' = i + 1
    /\ parts' = [parts EXCEPT
          ![key].is_boolean = TRUE,
          ![key].nodes = <<Boolean("union", Use(a, tr[1], tr[2], tr[3]), UseDefault(b))>>]
    /\ UNCHANGED <<order, instances, cur, pending_extrude, pc, err, scad>>
    /\ UNCHANGED v03vars

\* m.parts[key].nodes.append(MultiUnion(names))
ApiAppendMultiUnion(key, names) ==
    /\ Building
    /\ key \in DOMAIN parts
    /\ i' = i + 1
    /\ parts' = [parts EXCEPT ![key].nodes = Append(@, MultiUnion(names))]
    /\ UNCHANGED <<order, instances, cur, pending_extrude, pc, err, scad>>
    /\ UNCHANGED v03vars

\* m.instances.append(Instance(target, translate, rotate, scale))
ApiAppendInstance(target, tr) ==
    /\ Building
    /\ i' = i + 1
    /\ instances' = Append(instances, Instance(target, tr[1], tr[2], tr[3], <<>>))
    /\ UNCHANGED <<parts, order, cur, pending_extrude, pc, err, scad>>
    /\ UNCHANGED v03vars

\* The Model is handed to to_scad
ApiDone ==
    /\ pc = "build"
    /\ pc' = "parsed"
    /\ UNCHANGED <<parts, order, instances, cur, pending_extrude, i, err, scad>>
    /\ UNCHANGED v03vars

\* m = Model()
InitApi ==
    /\ parts = <<>>
    /\ order = <<>>
    /\ instances = <<>>
    /\ cur = None
    /\ pending_extrude = None
    /\ i = 0
    /\ pc = "build"
    /\ err = ""
    /\ scad = <<>>
    /\ V03Fresh

NextApi ==
    \/ \E name \in ApiNames : ApiGetOrCreate(name)
    \/ \E key \in ApiNames : ApiAppendPrim(key)
    \/ \E key \in ApiNames, name \in ApiNames, tr \in ApiTransforms :
          ApiAppendUse(key, name, tr)
    \/ \E key \in ApiNames, a \in ApiNames, tr \in ApiOperandTransforms, b \in ApiNames :
          ApiSetBoolean(key, a, tr, b)
    \/ \E key \in ApiNames, names \in ApiNameLists : ApiAppendMultiUnion(key, names)
    \/ \E target \in ApiNames, tr \in ApiTransforms : ApiAppendInstance(target, tr)
    \/ ApiDone
    \/ ToScad

SpecApi == InitApi /\ [][NextApi]_vars

\* -------------------------------------------------------- dsl_v03_to_scad

\* dsl_v03_to_scad keeps its registries `parts` and `scad_modules` at module
\* level.  A caller compiles one source text twice in one process:
\* parse_dsl(dsl); build_scad(); parse_dsl(dsl); build_scad().  The first
\* compilation draws the lines of the text, the second reads the same lines.

MaxV03Lines == 3

\* The lines a v03 source text is drawn from:
\*   ''
\*   'PART a:'
\*   'GROUP b:'
\*   'USE a position=(1,2,3)'
\*   'UNION a b AS c'
\*   'CUBE width=2 chamfer=1'
\*   'EXTRUDE height=5'
\*   'CIRCLE'
\*   'base:'
V03Lines ==
    {<<>>,
     <<<<"P","A","R","T">>, <<"a",":">>>>,
     <<<<"G","R","O","U","P">>, <<"b",":">>>>,
     <<<<"U","S","E">>, <<"a">>, <<"p","o","s","i","t","i","o","n","=","(","1",",","2",",","3",")">>>>,
     <<<<"U","N","I","O","N">>, <<"a">>, <<"b">>, <<"A","S">>, <<"c">>>>,
     <<<<"C","U","B","E">>, <<"w","i","d","t","h","=","2">>, <<"c","h","a","m","f","e","r","=","1">>>>,
     <<<<"E","X","T","R","U","D","E">>, <<"h","e","i","g","h","t","=","5">>>>,
     <<<<"C","I","R","C","L","E">>>>,
     <<<<"b","a","s","e",":">>>>}

\* val.strip("()")
RECURSIVE V03StripParens(_)
V03StripParens(s) ==
    IF s # <<>> /\ s[1] \in {"(", ")"} THEN V03StripParens(Tail(s))
    ELSE IF s # <<>> /\ s[Len(s)] \in {"(", ")"}
    THEN V03StripParens(SubSeq(s, 1, Len(s) - 1))
    ELSE s

\* parse_params, for tokens with at most one "=": float(val.strip("()"))
\* when that is a number, else the text val
RECURSIVE V03ParseParams(_)
V03ParseParams(tokens) ==
    IF tokens = <<>> THEN EmptyDict
    ELSE LET t == tokens[Len(tokens)]
             e == EqPos(t)
             val == SubSeq(t, e + 1, Len(t))
         IN  IF e = 0 THEN V03ParseParams(SubSeq(tokens, 1, Len(tokens) - 1))
             ELSE Put(V03ParseParams(SubSeq(tokens, 1, Len(tokens) - 1)),
                      SubSeq(t, 1, e - 1),
                      IF IsFloatText(V03StripParens(val))
                      THEN NumV(FloatOf(V03StripParens(val)))
                      ELSE StrV(val))

\* re.findall(r"[-+]?\d*\.\d+|\d+", s) from position p on, for texts
\* without a decimal point: the maximal runs of digits, as texts
RECURSIVE V03DigitRuns(_, _)
V03DigitRuns(s, p) ==
    IF p > Len(s) THEN <<>>
    ELSE IF IsDigit(s[p])
    THEN <<SubSeq(s, p, DigitRunEnd(s, p))>> \o V03DigitRuns(s, DigitRunEnd(s, p) + 1)
    ELSE V03DigitRuns(s, p + 1)

\* parse_pos: the numbers found in str(val), "[0,0,0]" when there is none;
\* a float prints as one number
V03ParsePos(val) ==
    IF val.t = "str"
    THEN IF V03DigitRuns(val.str, 1) = <<>> THEN <<<<"0">>, <<"0">>, <<"0">>>>
         ELSE V03DigitRuns(val.str, 1)
    ELSE <<val>>

\* emit_shape with chamfer_wrap: "" for a command that is no shape
V03EmitShape(cmd, params) ==
    LET pos == Tok("translate", <<>>,
                   V03ParsePos(Get(params, KeyPosition,
                       StrV(IF Upper(cmd) = KindCIRCLE THEN <<"(","0",",","0",")">>
                            ELSE <<"(","0",",","0",",","0",")">>))))
        chamfer == Get(params, KeyChamfer, NumV(0))
        shape ==
            IF Upper(cmd) = KindCUBE
            THEN <<pos, Tok("cube", <<>>, <<Get(params, KeyWidth, IntV(10)),
                                           Get(params, KeyDepth, IntV(10)),
                                           Get(params, KeyHeight, IntV(10))>>), T0(";")>>
            ELSE IF Upper(cmd) = KindCYLINDER
            THEN <<pos, Tok("cylinder", <<>>, <<Get(params, KeyRadius, IntV(5)),
                                               Get(params, KeyHeight, IntV(10))>>), T0(";")>>
            ELSE IF Upper(cmd) = KindSPHERE
            THEN <<pos, Tok("sphere", <<>>, <<Get(params, KeyRadius, IntV(5))>>), T0(";")>>
            ELSE IF Upper(cmd) = KindCIRCLE
            THEN <<pos, Tok("circle", <<>>, <<Get(params, KeyRadius, IntV(5))>>), T0(";")>>
            ELSE <<>>
    IN  IF Upper(cmd) \in {KindCUBE, KindCYLINDER}
           /\ (IF chamfer.t = "str" THEN chamfer.str # <<>> ELSE chamfer.num # 0)
        THEN <<T0("minkowski"), T0("{")>> \o shape
             \o <<Tok("chamfer_cylinder", <<>>, <<chamfer>>), T0(";"), T0("}")>>
        ELSE shape

\* `parts[name] = shapes` on the pair (v03_parts, v03_order)
V03Store(name, shapes) ==
    /\ v03_parts' = Put(v03_parts, name, shapes)
    /\ v03_order' = IF name \in DOMAIN v03_parts THEN v03_order
                    ELSE Append(v03_order, name)

\* `if current_part: parts[current_part] = current_shapes`
V03Flush ==
    IF current_part # None /\ current_part # Some(<<>>)
    THEN V03Store(current_part[1], current_shapes)
    ELSE UNCHANGED <<v03_parts, v03_order>>

\* parse_dsl is entered: its locals are initialised
V03Begin ==
    /\ pc = "v03_start"
    /\ pc' = "v03_parse"
    /\ i' = 0
    /\ current_part' = None
    /\ current_shapes' = <<>>
    /\ in_extrude' = FALSE
    /\ extrude_height' = IntV(0)
    /\ UNCHANGED <<parts, order, instances, cur, pending_extrude, err, scad,
                   v03_parts, v03_order, scad_modules, source, first>>

\* The for loop of parse_dsl takes the line toks: a line of the text being
\* written in the first compilation, the same line again in the second
V03Reads(toks) ==
    /\ pc = "v03_parse"
    /\ IF first = None THEN i < MaxV03Lines
       ELSE IF i < Len(source) THEN toks = source[i + 1] ELSE FALSE
    /\ i' = i + 1
    /\ source' = IF first = None THEN Append(source, toks) ELSE source

\* The string a USE line appends
V03UseShape(toks) ==
    <<Tok("translate", <<>>, V03ParsePos(Get(V03ParseParams(SubSeq(toks, 3, Len(toks))),
                                              KeyPosition, StrV(<<"(","0",",","0",",","0",")">>)))),
      Tok("rotate", <<>>, V03ParsePos(Get(V03ParseParams(SubSeq(toks, 3, Len(toks))),
                                           KeyRotate, StrV(<<"(","0",",","0",",","0",")">>)))),
      Tok("call", toks[2], <<>>), T0(";")>>

\* The module text a UNION / CUT / INTERSECT line appends to scad_modules
V03BoolModule(toks) ==
    <<Tok("module", toks[5], <<>>), T0("{"), T0(OpOf(Upper(toks[1]))), T0("{"),
      Tok("call", toks[2], <<>>), T0(";"), Tok("call", toks[3], <<>>), T0(";"),
      T0("}"), T0("}")>>

\* One iteration of the for loop of parse_dsl
V03Line(toks) ==
    /\ V03Reads(toks)
    /\ IF IsSkipped(toks)
       THEN UNCHANGED <<v03_parts, v03_order, scad_modules, current_part,
                        current_shapes, in_extrude, extrude_height, pc, err>>
       ELSE IF Upper(toks[1]) \in {KwPART, KwGROUP, KwUSE} /\ Len(toks) < 2
       THEN /\ pc' = "raised" /\ err' = "IndexError"
            /\ UNCHANGED <<v03_parts, v03_order, scad_modules, current_part,
                           current_shapes, in_extrude, extrude_height>>
       ELSE IF Upper(toks[1]) \in {KwUNION, KwCUT, KwINTERSECT} /\ Len(toks) < 5
       THEN /\ pc' = "raised" /\ err' = "IndexError"
            /\ UNCHANGED <<v03_parts, v03_order, scad_modules, current_part,
                           current_shapes, in_extrude, extrude_height>>
       ELSE IF Upper(toks[1]) \in {KwPART, KwGROUP}
       THEN /\ V03Flush
            /\ current_part' = Some(RStripColon(toks[2]))
            /\ current_shapes' = <<>>
            /\ UNCHANGED <<scad_modules, in_extrude, extrude_height, pc, err>>
       ELSE IF Upper(toks[1]) = KwUSE
       THEN /\ current_shapes' = Append(current_shapes, V03UseShape(toks))
            /\ UNCHANGED <<v03_parts, v03_order, scad_modules, current_part,
                           in_extrude, extrude_height, pc, err>>
       ELSE IF Upper(toks[1]) \in {KwUNION, KwCUT, KwINTERSECT}
       THEN /\ scad_modules' = Append(scad_modules, V03BoolModule(toks))
            /\ V03Store(toks[5], <<<<Tok("call", toks[5], <<>>), T0(";")>>>>)
            /\ UNCHANGED <<current_part, current_shapes, in_extrude, extrude_height,
                           pc, err>>
       ELSE IF Upper(toks[1]) = KwEXTRUDE
       THEN /\ in_extrude' = TRUE
            /\ extrude_height' = Get(V03ParseParams(Tail(toks)), KeyHeight, IntV(10))
            /\ UNCHANGED <<v03_parts, v03_order, scad_modules, current_part,
                           current_shapes, pc, err>>
       ELSE IF toks[1][Len(toks[1])] = ":"
       THEN UNCHANGED <<v03_parts, v03_order, scad_modules, current_part,
                        current_shapes, in_extrude, extrude_height, pc, err>>
       ELSE IF in_extrude
       THEN /\ current_shapes' = Append(current_shapes,
                   <<Tok("linear_extrude", <<>>, <<extrude_height>>), T0("{")>>
                   \o V03EmitShape(toks[1], V03ParseParams(Tail(toks))) \o <<T0("}")>>)
            /\ in_extrude' = FALSE
            /\ UNCHANGED <<v03_parts, v03_order, scad_modules, current_part,
                           extrude_height, pc, err>>
       ELSE /\ current_shapes' = Append(current_shapes,
                   V03EmitShape(toks[1], V03ParseParams(Tail(toks))))
            /\ UNCHANGED <<v03_parts, v03_order, scad_modules, current_part,
                           in_extrude, extrude_height, pc, err>>
    /\ UNCHANGED <<parts, order, instances, cur, pending_extrude, scad, first>>

\* The text has no more lines: the open part is stored and parse_dsl returns
V03ParseReturn ==
    /\ pc = "v03_parse"
    /\ IF first = None THEN TRUE ELSE i = Len(source)
    /\ V03Flush
    /\ pc' = "v03_parsed"
    /\ UNCHANGED <<parts, order, instances, cur, pending_extrude, i, err, scad,
                   scad_modules, current_part, current_shapes, in_extrude,
                   extrude_height, source, first>>

\* sep.join(items)
RECURSIVE V03Join(_, _)
V03Join(items, sep) ==
    IF items = <<>> THEN <<>>
    ELSE IF Len(items) = 1 THEN items[1]
    ELSE items[1] \o sep \o V03Join(Tail(items), sep)

\* x_off += 150
V03LayoutStep == 150

\* build_scad: a module per entry of parts, then scad_modules, then the
\* scene, joined by "\n\n"
V03BuildScadText(ps, ord, mods) ==
    V03Join([k \in DOMAIN ord |->
                <<Tok("module", ord[k], <<>>), T0("{")>>
                \o V03Join(ps[ord[k]], <<NL>>) \o <<T0("}")>>]
            \o mods
            \o <<V03Join([k \in DOMAIN ord |->
                            <<Tok("translate", <<>>,
                                  <<IntV((k - 1) * V03LayoutStep), IntV(0), IntV(0)>>),
                              Tok("call", ord[k], <<>>), T0(";")>>],
                         <<NL>>)>>,
            <<NL, NL>>)

\* scad = build_scad(); after the first compilation the caller compiles the
\* same text again
V03BuildScad ==
    /\ pc = "v03_parsed"
    /\ scad' = V03BuildScadText(v03_parts, v03_order, scad_modules)
    /\ first' = IF first = None THEN Some(scad') ELSE first
    /\ pc' = IF first = None THEN "v03_start" ELSE "v03_done"
    /\ UNCHANGED <<parts, order, instances, cur, pending_extrude, i, err,
                   v03_parts, v03_order, scad_modules, current_part, current_shapes,
                   in_extrude, extrude_height, source>>

\* The process after `import dsl_v03_to_scad`
InitV03 ==
    /\ parts = <<>>
    /\ order = <<>>
    /\ instances = <<>>
    /\ cur = None
    /\ pending_extrude = None
    /\ i = 0
    /\ pc = "v03_start"
    /\ err = ""
    /\ scad = <<>>
    /\ V03Fresh

NextV03 ==
    \/ V03Begin
    \/ \E toks \in V03Lines : V03Line(toks)
    \/ V03ParseReturn
    \/ V03BuildScad

SpecV03 == InitV03 /\ [][NextV03]_vars

\* ------------------------------------------------ declaration order
\*
\* The same blocks compiled twice by parse and to_scad, each time with a
\* fresh Model: first with `CUT a b AS c` as the first line of the text, then
\* with that line moved to the end.  `source` is the text of the first
\* compilation; `first` keeps the outcome of the first compilation.

\*   'CUT a b AS c'
CutLine == <<<<"C","U","T">>, <<"a">>, <<"b">>, <<"A","S">>, <<"c">>>>

\* Lines of the PART / GROUP blocks
BlockLines ==
    {<<>>,
     <<<<"P","A","R","T">>, <<"a",":">>>>,
     <<<<"G","R","O","U","P">>, <<"b",":">>>>,
     <<<<"E","X","T","R","U","D","E">>, <<"h","e","i","g","h","t","=","5">>>>,
     <<<<"C","U","B","E">>, <<"w","i","d","t","h","=","2">>, <<"c","h","a","m","f","e","r","=","1">>>>,
     <<<<"C","I","R","C","L","E">>, <<"r","a","d","i","u","s","=","2">>>>,
     <<<<"F","O","O">>>>}

\* The text of a compilation: the second moves the first line to the end
OrderText(src, second) == IF second THEN Tail(src) \o <<Head(src)>> ELSE src

\* The line lines[i] of the compilation under way
OrderNow ==
    IF pc = "parse" /\ i < Len(source)
    THEN {OrderText(source, first # None)[i + 1]}
    ELSE {}

\* `while i < len(lines)` is left
OrderReturn == i = Len(source) /\ ParseReturn

\* The first compilation is over; parse is called on the second text
OrderAgain ==
    /\ pc \in {"emitted", "raised"}
    /\ first = None
    /\ first' = Some([pc |-> pc, err |-> err, scad |-> scad])
    /\ parts' = <<>>
    /\ order' = <<>>
    /\ instances' = <<>>
    /\ cur' = None
    /\ pending_extrude' = None
    /\ i' = 0
    /\ pc' = "parse"
    /\ err' = ""
    /\ scad' = <<>>
    /\ UNCHANGED <<v03_parts, v03_order, scad_modules, current_part, current_shapes,
                   in_extrude, extrude_height, source>>

InitOrder ==
    /\ parts = <<>>
    /\ order = <<>>
    /\ instances = <<>>
    /\ cur = None
    /\ pending_extrude = None
    /\ i = 0
    /\ pc = "parse"
    /\ err = ""
    /\ scad = <<>>
    /\ v03_parts = <<>>
    /\ v03_order = <<>>
    /\ scad_modules = <<>>
    /\ current_part = None
    /\ current_shapes = <<>>
    /\ in_extrude = FALSE
    /\ extrude_height = IntV(0)
    /\ \E n \in 0..(MaxLines - 1) : \E b \in [1..n -> BlockLines] : source = <<CutLine>> \o b
    /\ first = None

NextOrder ==
    \/ \E toks \in OrderNow : SkipLine(toks)
    \/ \E toks \in OrderNow : PartLine(toks)
    \/ \E toks \in OrderNow : BoolLine(toks)
    \/ \E toks \in OrderNow : ExtrudeLine(toks)
    \/ \E toks \in OrderNow : PrimLine(toks)
    \/ OrderReturn
    \/ ToScad
    \/ OrderAgain

SpecOrder == InitOrder /\ [][NextOrder]_vars

\* ------------------------------- the parameter parser and the primitives
\*
\* One primitive line: `source` is toks, the kind followed by the parameter
\* tokens; `first` is the mapping _params(toks[1:]) returns; `scad` is the
\* text _emit_primitive_scad gives for Prim(toks[0], prm).

MaxTokens == 2

\*   'CUBE'  'CYLINDER'  'ROD'  'SPHERE'  'cube'
PrimKinds ==
    {<<"C","U","B","E">>, <<"C","Y","L","I","N","D","E","R">>, <<"R","O","D">>,
     <<"S","P","H","E","R","E">>, <<"c","u","b","e">>}

\* Tokens of a line after its head:
\*   'a'  'k=5'  'k=-7'  'k=x'  'k='  'k=1=2'  '=5'
\*   'v=(1,2,3)'  'v=[1,2'  'v=(1,2,3,4)'  'v=('
\*   'width=2'
\*   'orientation=x'  'orientation=y'  'orientation=z'  'orientation=X'
\*   'chamfer=0'  'chamfer=2'  'chamfer=x'  'chamfer=(1,2,3)'
ParamTokens ==
    {<<"a">>,
     <<"k","=","5">>,
     <<"k","=","-","7">>,
     <<"k","=","x">>,
     <<"k","=">>,
     <<"k","=","1","=","2">>,
     <<"=","5">>,
     <<"v","=","(","1",",","2",",","3",")">>,
     <<"v","=","[","1",",","2">>,
     <<"v","=","(","1",",","2",",","3",",","4",")">>,
     <<"v","=","(">>,
     <<"w","i","d","t","h","=","2">>,
     <<"o","r","i","e","n","t","a","t","i","o","n","=","x">>,
     <<"o","r","i","e","n","t","a","t","i","o","n","=","y">>,
     <<"o","r","i","e","n","t","a","t","i","o","n","=","z">>,
     <<"o","r","i","e","n","t","a","t","i","o","n","=","X">>,
     <<"c","h","a","m","f","e","r","=","0">>,
     <<"c","h","a","m","f","e","r","=","2">>,
     <<"c","h","a","m","f","e","r","=","x">>,
     <<"c","h","a","m","f","e","r","=","(","1",",","2",",","3",")">>}

\* prm = _params(toks[1:])
ParamsCall ==
    /\ pc = "params"
    /\ first' = Some(Params(Tail(source)))
    /\ pc' = "params_done"
    /\ UNCHANGED <<parts, order, instances, cur, pending_extrude, i, err, scad,
                   v03_parts, v03_order, scad_modules, current_part, current_shapes,
                   in_extrude, extrude_height, source>>

\* _emit_primitive_scad(Prim(toks[0], prm))
PrimCall ==
    /\ pc = "params_done"
    /\ scad' = EmitPrimitive(Prim(source[1], first[1]))
    /\ pc' = "prim_done"
    /\ UNCHANGED <<parts, order, instances, cur, pending_extrude, i, err,
                   v03_parts, v03_order, scad_modules, current_part, current_shapes,
                   in_extrude, extrude_height, source, first>>

InitParams ==
    /\ parts = <<>>
    /\ order = <<>>
    /\ instances = <<>>
    /\ cur = None
    /\ pending_extrude = None
    /\ i = 0
    /\ pc = "params"
    /\ err = ""
    /\ scad = <<>>
    /\ v03_parts = <<>>
    /\ v03_order = <<>>
    /\ scad_modules = <<>>
    /\ current_part = None
    /\ current_shapes = <<>>
    /\ in_extrude = FALSE
    /\ extrude_height = IntV(0)
    /\ \E kind \in PrimKinds : \E n \in 0..MaxTokens : \E ts \in [1..n -> ParamTokens] :
           source = <<kind>> \o ts
    /\ first = None

NextParams == ParamsCall \/ PrimCall

SpecParams == InitParams /\ [][NextParams]_vars

\* ------------------------------------------------ reading the emitted text

\* Positions of the tokens of kind k in text
Positions(text, k) == {j \in DOMAIN text : text[j].k = k}

\* Position of the token `module name()` that opens the n-th module
RECURSIVE NthModule(_, _, _)
NthModule(text, n, from) ==
    IF from > Len(text) THEN 0
    ELSE IF text[from].k = "module"
         THEN IF n = 1 THEN from ELSE NthModule(text, n - 1, from + 1)
    ELSE NthModule(text, n, from + 1)

\* Number of modules defined in text
ModuleCount(text) == Cardinality(Positions(text, "module"))

\* Text of the n-th module definition: from its `module` token up to the
\* next one (or the end)
ModuleSegment(text, n) ==
    LET b == NthModule(text, n, 1)
        e == IF n < ModuleCount(text) THEN NthModule(text, n + 1, 1) - 1 ELSE Len(text)
    IN  SubSeq(text, b, e)

\* Index of key in the sequence ord, 0 when absent
IndexOf(ord, key) ==
    IF \E k \in DOMAIN ord : ord[k] = key
    THEN CHOOSE k \in DOMAIN ord : ord[k] = key
    ELSE 0

\* Text of the module emitted for the part key
PartModule(key) == ModuleSegment(scad, IndexOf(order, key))

\* Names a part's body refers to
NodeRefs(n) ==
    IF n.node = "Use" THEN {n.name}
    ELSE IF n.node = "Boolean" THEN {n.left.name, n.right.name}
    ELSE IF n.node = "MultiUnion" THEN {n.names[k] : k \in DOMAIN n.names}
    ELSE {}

PartRefs(ps, key) ==
    IF key \in DOMAIN ps
    THEN UNION {NodeRefs(ps[key].nodes[k]) : k \in DOMAIN ps[key].nodes}
    ELSE {}

\* Names reached from the names in S through n or fewer further references
RECURSIVE ReachN(_, _, _)
ReachN(ps, S, n) ==
    IF n = 0 THEN S
    ELSE ReachN(ps, S \cup UNION {PartRefs(ps, k) : k \in S}, n - 1)

\* Names reached from the part key through one or more references
Reach(ps, key) == ReachN(ps, PartRefs(ps, key), Cardinality(DOMAIN ps) + 1)

\* ----------------------------------------------------------------- claims

\* C1 (as claimed): a `USE t` line processed while a Part P is open appends
\* exactly one Use node (target t with its position/rotate/scale) to P's
\* body and adds no Instance; processed while no Part is open it appends
\* exactly one Instance and changes no Part body.
C1_UseDualSink ==
    [][\A toks \in UseLines :
         (Len(toks) >= 2 /\ UseLine(toks)) =>
            LET prm == Params(SubSeq(toks, 3, Len(toks)))
                scale == IF KeyScale \in DOMAIN prm THEN Some(prm[KeyScale]) ELSE None
                u == Use(toks[2], Get(prm, KeyPosition, VecV(ZeroVec)),
                         Get(prm, KeyRotate, VecV(ZeroVec)), scale)
            IN  IF cur # None
                THEN /\ parts'[cur[1]].nodes = Append(parts[cur[1]].nodes, u)
                     /\ instances' = instances
                ELSE /\ Len(instances') = Len(instances) + 1
                     /\ instances'[Len(instances')].target = u.name
                     /\ parts' = parts]_vars

\* Parts that refer to themselves, directly or through other parts
SelfReferent(key) == key \in PartRefs(parts, key)

OnCycle(key) == key \in Reach(parts, key)

HasCycleMarker(text, name) ==
    \E j \in DOMAIN text : text[j].k = "cycle" /\ text[j].s = name

\* C2: to_scad terminates on every Model, cyclic ones included (the
\* recursion never runs past MaxDepth), and the module emitted for a boolean
\* part that names itself as an operand holds the cycle marker for that
\* part; the module of any boolean part that lies on a reference cycle holds a
\* cycle marker.
C2_CycleTerminates ==
    /\ err # "RecursionError"
    /\ pc = "emitted" =>
          \A key \in DOMAIN parts :
             parts[key].is_boolean =>
                /\ SelfReferent(key) => HasCycleMarker(PartModule(key), key)
                /\ OnCycle(key) =>
                      \E name \in DOMAIN parts :
                         OnCycle(name) /\ HasCycleMarker(PartModule(key), name)

\* One boolean part is its own operand, another lies on a cycle through a
\* second part, and the text was emitted
C2_Witness ==
    /\ pc = "emitted"
    /\ \E key \in DOMAIN parts : parts[key].is_boolean /\ SelfReferent(key)
    /\ \E key \in DOMAIN parts :
          parts[key].is_boolean /\ OnCycle(key) /\ ~SelfReferent(key)

\* C3: the expanded geometry of a part, written out directly: the items of
\* its body joined by "\n  ", every operand of a Boolean replaced by the
\* expanded geometry of the part it names under the operand's transforms.
\* n bounds the nesting, which is finite for an acyclic part.
RECURSIVE Inlined(_, _, _)
Inlined(ps, key, n) ==
    LET Operand(u) ==
            IF n = 0 THEN <<>> ELSE WithSemi(UseTransforms(u, Inlined(ps, u.name, n - 1)))
        Item(node) ==
            IF node.node = "Prim" THEN WithSemi(EmitPrimitive(node))
            ELSE IF node.node = "Extrude"
            THEN <<Tok("linear_extrude", <<>>, <<NumV(node.height)>>), T0("{")>>
                 \o EmitPrimitive(node.child2d) \o <<T0("}"), T0(";")>>
            ELSE <<T0(node.op), T0("{")>> \o Operand(node.left) \o Operand(node.right)
                 \o <<T0("}")>>
        Join[k \in 0..Len(ps[key].nodes)] ==
            IF k = 0 THEN <<>>
            ELSE IF k = 1 THEN Item(ps[key].nodes[1])
            ELSE Join[k - 1] \o <<NL>> \o Item(ps[key].nodes[k])
    IN  Join[Len(ps[key].nodes)]

\* The operands of the part key are all declared and acyclic
OperandsResolvable(key) ==
    /\ Reach(parts, key) \subseteq DOMAIN parts
    /\ key \notin Reach(parts, key)
    /\ \A k \in Reach(parts, key) : k \notin Reach(parts, k)

\* No part reached from key has an empty body
OperandsNonEmpty(key) == \A k \in Reach(parts, key) : parts[k].nodes # <<>>

\* The module of key is the wrapper around its expanded geometry and holds
\* neither a reference call nor a cycle marker
FullyExpanded(key) ==
    /\ PartModule(key) =
          <<Tok("module", key, <<>>), T0("{"), NL>>
          \o Inlined(parts, key, Cardinality(DOMAIN parts))
          \o <<NL, T0("}"), NL, NL>>
    /\ \A j \in DOMAIN PartModule(key) : PartModule(key)[j].k \notin {"call", "cycle"}

Dangling ==
    ({instances[k].target : k \in DOMAIN instances}
     \cup UNION {PartRefs(parts, key) : key \in DOMAIN parts})
    \ DOMAIN parts

\* C5 (as claimed): a reference to an identifier that is not in the symbol
\* table makes to_scad raise, whichever kind of reference it is: a Boolean
\* operand, a Use node of a part body, a MultiUnion name or the target of a
\* top-level Instance.  So to_scad returns a text only when no reference of
\* the Model dangles.
C5_UnknownReferenceRaises == pc = "emitted" => Dangling = {}

\* Lines that lack the name or the `A B AS C` shape, and the step that
\* reads a line
Malformed(toks) ==
    IF IsSkipped(toks) THEN FALSE
    ELSE IF HeadOf(toks) \in {KwUNION, KwCUT, KwINTERSECT}
    THEN IF Len(toks) < 2 THEN TRUE ELSE ~BoolMatch(Tail(toks))
    ELSE IF HeadOf(toks) \in {KwPART, KwGROUP, KwUSE, KwMOVE, KwROTATE}
    THEN Len(toks) < 2
    ELSE FALSE

ReadsLine(toks) ==
    \/ PartLine(toks)
    \/ UseLine(toks)
    \/ MoveLine(toks)
    \/ RotateLine(toks)
    \/ BoolLine(toks)

\* C6 (as claimed): parse raises nothing; a UNION/CUT/INTERSECT line
\* without the `A B AS C` shape and a PART/GROUP/USE/MOVE/ROTATE line
\* without its name is ignored: the step that reads it raises nothing and
\* leaves the Model as it was.
C6_ParseNeverRaises ==
    [][\A toks \in Lines :
         (Malformed(toks) /\ ReadsLine(toks)) =>
            /\ pc' = "parse"
            /\ err' = ""
            /\ parts' = parts /\ order' = order /\ instances' = instances]_vars

\* The line of the assembly module that places the k-th instance: the
\* tokens between its comment line and the end of the next line
InstanceLine(text, k) ==
    LET p == CHOOSE j \in DOMAIN text :
                 text[j].k = "instance_comment" /\ text[j].a = <<IntV(k)>>
        e == CHOOSE j \in (p + 2)..Len(text) :
                 text[j].k = "nl" /\ \A h \in (p + 2)..(j - 1) : text[h].k # "nl"
    IN  SubSeq(text, p + 2, e - 1)

\* C7 (as claimed): the translate t of a top-level Instance (from
\* `USE ... position=` or `MOVE ... by=`) is applied in the assembly in
\* addition to the layout offset: the line that places the instance holds a
\* translate by t.
C7_InstanceTranslateApplied ==
    pc = "emitted" =>
       \A k \in DOMAIN instances :
          SafeVec3(instances[k].translate) # ZeroVec =>
             \E j \in DOMAIN InstanceLine(scad, k) :
                /\ InstanceLine(scad, k)[j].k = "translate"
                /\ InstanceLine(scad, k)[j].a = <<PosStr(instances[k].translate)>>

\* Names of the modules text defines, in the order of the text
ModuleNames(text) ==
    [n \in 1..ModuleCount(text) |-> text[NthModule(text, n, 1)].s]

\* The instance comments of text, in the order of the text
RECURSIVE InstanceComments(_, _)
InstanceComments(text, from) ==
    IF from > Len(text) THEN <<>>
    ELSE IF text[from].k = "instance_comment"
    THEN <<text[from]>> \o InstanceComments(text, from + 1)
    ELSE InstanceComments(text, from + 1)

\* The line that places the k-th instance ends with the call of its target
CallsTarget(text, k) ==
    LET line == InstanceLine(text, k)
    IN  /\ Len(line) >= 3
        /\ line[Len(line) - 1] = Tok("call", instances[k].target, <<>>)
        /\ line[Len(line)].k = ";"

\* The text to_scad returned: one module per part in the order of `order`,
\* then the assembly module with one comment and one call per instance,
\* then `assembly();`
EmittedLayout ==
    /\ ModuleNames(scad) = order \o <<AssemblyName>>
    /\ InstanceComments(ModuleSegment(scad, ModuleCount(scad)), 1)
         = [k \in 1..Len(instances) |->
               Tok("instance_comment", instances[k].label, <<IntV(k)>>)]
    /\ InstanceComments(scad, 1)
         = InstanceComments(ModuleSegment(scad, ModuleCount(scad)), 1)
    /\ \A k \in DOMAIN instances : CallsTarget(scad, k)
    /\ SubSeq(scad, Len(scad) - 3, Len(scad))
         = <<T0("}"), NL, Tok("call", AssemblyName, <<>>), T0(";")>>

\* `order` lists every key of the symbol table once
OrderIsTable ==
    /\ {order[k] : k \in DOMAIN order} = DOMAIN parts
    /\ Len(order) = Cardinality(DOMAIN parts)

\* A step moves no part: it leaves `order` alone or appends one new key
OrderGrows ==
    \/ order' = order
    \/ /\ Len(order') = Len(order) + 1
       /\ SubSeq(order', 1, Len(order)) = order
       /\ order'[Len(order')] \notin DOMAIN parts

\* C10: to_scad emits exactly one module per Part of the symbol table, in
\* the order in which the parts were first created (re-opening a part with
\* PART/GROUP or redefining it with a boolean line neither moves nor
\* duplicates it), then one assembly module that lists every Instance, then
\* the call `assembly();`.
C10_ModulePerPartInOrder ==
    /\ [](OrderIsTable /\ (pc = "emitted" => EmittedLayout))
    /\ [][OrderGrows]_vars

\* Part a was created first, b second, a was re-opened after an instance
\* was placed, and the text was emitted
C10_Witness ==
    /\ pc = "emitted"
    /\ Len(order) = 2
    /\ cur = Some(order[1])
    /\ ~parts[order[2]].is_boolean
    /\ Len(instances) >= 1

\* The lines of text from position p on (text split at its line breaks)
RECURSIVE SplitLines(_, _)
SplitLines(text, p) ==
    LET ends == {j \in p..Len(text) : text[j].k = "nl"}
        e == IF ends = {} THEN Len(text) + 1
             ELSE CHOOSE j \in ends : \A h \in ends : j <= h
    IN  <<SubSeq(text, p, e - 1)>>
        \o (IF e > Len(text) THEN <<>> ELSE SplitLines(text, e + 1))

\* The kinds of the tokens of a line
Kinds(line) == [j \in DOMAIN line |-> line[j].k]

\* A part whose module has one line per body node: it is not boolean and
\* its body holds primitives, extrusions and Use nodes only
OneLinePerNode(key) ==
    /\ ~parts[key].is_boolean
    /\ \A k \in DOMAIN parts[key].nodes :
          parts[key].nodes[k].node \in {"Prim", "Use", "Extrude"}

\* The line of the module of part key emitted for its k-th body node
NodeLine(key, k) == SplitLines(PartModule(key), 1)[k + 1]

\* The Use nodes emitted on a line of their own, as pairs <<key, k>>
UseLinesEmitted ==
    {kk \in UNION {{<<key, k>> : k \in DOMAIN parts[key].nodes} : key \in DOMAIN parts} :
        OneLinePerNode(kk[1]) /\ parts[kk[1]].nodes[kk[2]].node = "Use"}

\* The node of such a pair
NodeAt(kk) == parts[kk[1]].nodes[kk[2]]

Rotated(x) == SafeVec3(x.rotate) # ZeroVec

Scaled(x) == x.scale # None

\* The tokens of the rotate and the scale wrapper of x
RotateTok(x) == Tok("rotate", <<>>, <<VecV(SafeVec3(x.rotate))>>)

ScaleTok(x) == Tok("scale", <<>>, <<x.scale[1]>>)

TranslateTok(x) == Tok("translate", <<>>, <<VecV(SafeVec3(x.translate))>>)

\* The translate that places the k-th instance of the assembly
LayoutTok(k) == Tok("translate", <<>>, <<NumV((k - 1) * LayoutStep), IntV(0), IntV(0)>>)

\* C4: a Use node and a top-level Instance that have a scale, a rotation
\* and a translation are emitted as translate(rotate(scale(body))): scale
\* innermost, rotate around it, translate outermost (for an Instance the
\* translate wrapper is the one to_scad emits, the layout offset).  The same
\* order holds for the left operand of a Boolean.
C4_TransformNesting ==
    pc = "emitted" =>
       /\ \A kk \in UseLinesEmitted :
             (Rotated(NodeAt(kk)) /\ Scaled(NodeAt(kk))) =>
                NodeLine(kk[1], kk[2])
                  = <<TranslateTok(NodeAt(kk)), RotateTok(NodeAt(kk)), ScaleTok(NodeAt(kk)),
                      Tok("call", NodeAt(kk).name, <<>>), T0(";")>>
       /\ \A k \in DOMAIN instances :
             (Rotated(instances[k]) /\ Scaled(instances[k])) =>
                InstanceLine(scad, k)
                  = <<LayoutTok(k), RotateTok(instances[k]), ScaleTok(instances[k]),
                      Tok("call", instances[k].target, <<>>), T0(";")>>
       /\ \A key \in DOMAIN parts :
             (/\ parts[key].is_boolean
              /\ Rotated(parts[key].nodes[1].left)
              /\ Scaled(parts[key].nodes[1].left)) =>
                SubSeq(NodeLine(key, 1), 3, 5)
                  = <<TranslateTok(parts[key].nodes[1].left),
                      RotateTok(parts[key].nodes[1].left),
                      ScaleTok(parts[key].nodes[1].left)>>

\* A Use node and an Instance with all three transforms were emitted
C4_Witness ==
    /\ pc = "emitted"
    /\ \E kk \in UseLinesEmitted :
          /\ Rotated(NodeAt(kk)) /\ Scaled(NodeAt(kk))
          /\ SafeVec3(NodeAt(kk).translate) # ZeroVec
    /\ \E k \in DOMAIN instances :
          /\ Rotated(instances[k]) /\ Scaled(instances[k])
          /\ SafeVec3(instances[k].translate) # ZeroVec

\* A scale of 1
UnitScale(x) == x.scale # None /\ x.scale[1].t \in {"int", "num"} /\ x.scale[1].num = 1

\* C8 (as claimed): a Use or Instance whose translate is (0,0,0) is emitted
\* without a translate wrapper for that translate, and one whose scale is 1
\* without a scale wrapper.
C8_NoOpTransformsElided ==
    pc = "emitted" =>
       /\ \A kk \in UseLinesEmitted :
             /\ SafeVec3(NodeAt(kk).translate) = ZeroVec
                  => "translate" \notin {NodeLine(kk[1], kk[2])[j].k :
                                           j \in DOMAIN NodeLine(kk[1], kk[2])}
             /\ UnitScale(NodeAt(kk))
                  => "scale" \notin {NodeLine(kk[1], kk[2])[j].k :
                                       j \in DOMAIN NodeLine(kk[1], kk[2])}
       /\ \A k \in DOMAIN instances :
             /\ SafeVec3(instances[k].translate) = ZeroVec
                  => TranslateTok(instances[k]) \notin
                        {InstanceLine(scad, k)[j] : j \in DOMAIN InstanceLine(scad, k)}
             /\ UnitScale(instances[k])
                  => "scale" \notin {InstanceLine(scad, k)[j].k :
                                       j \in DOMAIN InstanceLine(scad, k)}

\* The wrappers the code emits around the call of x after the translate
WrappersOf(x) ==
    (IF Rotated(x) THEN <<RotateTok(x)>> ELSE <<>>)
    \o (IF Scaled(x) THEN <<ScaleTok(x)>> ELSE <<>>)

\* C8 (amended): the rotate wrapper is emitted exactly when the rotation is
\* not (0,0,0) and the scale wrapper exactly when a scale is given, a scale
\* of 1 included; the translate wrapper of a Use is emitted for every
\* translate, (0,0,0) included, and that of an Instance is always the layout
\* offset.
C8_WrappersEmitted ==
    pc = "emitted" =>
       /\ \A kk \in UseLinesEmitted :
             NodeLine(kk[1], kk[2])
               = <<TranslateTok(NodeAt(kk))>> \o WrappersOf(NodeAt(kk))
                 \o <<Tok("call", NodeAt(kk).name, <<>>), T0(";")>>
       /\ \A k \in DOMAIN instances :
             InstanceLine(scad, k)
               = <<LayoutTok(k)>> \o WrappersOf(instances[k])
                 \o <<Tok("call", instances[k].target, <<>>), T0(";")>>

\* A Use node with translate (0,0,0) and scale 1 and an Instance with
\* scale 1 were emitted
C8_Witness ==
    /\ pc = "emitted"
    /\ \E kk \in UseLinesEmitted :
          SafeVec3(NodeAt(kk).translate) = ZeroVec /\ UnitScale(NodeAt(kk))
    /\ \E k \in DOMAIN instances : UnitScale(instances[k])

\* C9: an Instance and a Use node with rotation (0,0,0) and no scale are
\* emitted with a translate wrapper only: the line is the translate, the
\* call and ";", with no rotate and no scale wrapper, whatever the target
\* and the translate.
C9_TranslateOnly ==
    pc = "emitted" =>
       /\ \A kk \in UseLinesEmitted :
             (~Rotated(NodeAt(kk)) /\ ~Scaled(NodeAt(kk))) =>
                Kinds(NodeLine(kk[1], kk[2])) = <<"translate", "call", ";">>
       /\ \A k \in DOMAIN instances :
             (~Rotated(instances[k]) /\ ~Scaled(instances[k])) =>
                Kinds(InstanceLine(scad, k)) = <<"translate", "call", ";">>

\* Two Use nodes and an Instance without rotation and scale, with and
\* without a translate, were emitted
C9_Witness ==
    /\ pc = "emitted"
    /\ \E kk \in UseLinesEmitted :
          /\ ~Rotated(NodeAt(kk)) /\ ~Scaled(NodeAt(kk))
          /\ SafeVec3(NodeAt(kk).translate) # ZeroVec
    /\ \E kk \in UseLinesEmitted :
          /\ ~Rotated(NodeAt(kk)) /\ ~Scaled(NodeAt(kk))
          /\ SafeVec3(NodeAt(kk).translate) = ZeroVec
    /\ \E k \in DOMAIN instances : ~Rotated(instances[k]) /\ ~Scaled(instances[k])

\* The layout offset read from the line that places the k-th instance: the
\* x of its first wrapper
OffsetOf(text, k) == InstanceLine(text, k)[1].a[1].num

\* C11: the k-th Instance in declaration order (k = 0, 1, 2, ...) is
\* emitted in position k of the assembly, exactly once, and its line opens
\* with the layout translation by k times one fixed increment along +X:
\* the offsets start at 0 and strictly increase, whatever the targets and
\* transforms of the instances are.
C11_LayoutOffsets ==
    pc = "emitted" =>
       /\ InstanceComments(scad, 1)
            = [k \in 1..Len(instances) |->
                  Tok("instance_comment", instances[k].label, <<IntV(k)>>)]
       /\ \A k \in DOMAIN instances :
             /\ InstanceLine(scad, k)[1].k = "translate"
             /\ InstanceLine(scad, k)[1].a
                  = <<NumV((k - 1) * LayoutStep), IntV(0), IntV(0)>>
             /\ CallsTarget(scad, k)
             /\ Cardinality({j \in DOMAIN InstanceLine(scad, k) :
                               InstanceLine(scad, k)[j].k = "call"}) = 1
       /\ \A k \in DOMAIN instances :
             IF k = 1 THEN OffsetOf(scad, k) = 0
             ELSE OffsetOf(scad, k - 1) < OffsetOf(scad, k)

\* Three instances with different targets and transforms were emitted
C11_Witness ==
    /\ pc = "emitted"
    /\ Len(instances) >= 3
    /\ instances[1].target # instances[2].target
    /\ \E k \in DOMAIN instances : Rotated(instances[k]) /\ Scaled(instances[k])
    /\ \E k \in DOMAIN instances : ~Rotated(instances[k]) /\ ~Scaled(instances[k])

\* C12 (as claimed): compiling the same source twice in one process yields
\* the same text: the second compilation's output equals the first's.  In
\* dsl_v03_to_scad the module-level `parts` and `scad_modules` outlive a
\* compilation, so the second output repeats what the first left behind.
C12_SameSourceSameOutput ==
    pc = "v03_done" => scad = first[1]

\* Text of the module named name in an emitted text
ModuleNamed(text, name) == ModuleSegment(text, IndexOf(ModuleNames(text), name))

\* C13: the module emitted for the boolean part c is the same whether
\* `CUT a b AS c` stands before or after the PART a: / GROUP b: blocks: both
\* compilations end the same way (a text, or KeyError for an operand never
\* declared) and, when they emit, the module c is token for token the same.
C13_BooleanOrderIndependent ==
    (pc \in {"emitted", "raised"} /\ first # None) =>
        /\ first[1].pc = pc
        /\ first[1].err = err
        /\ pc = "emitted" =>
              ModuleNamed(scad, <<"c">>) = ModuleNamed(first[1].scad, <<"c">>)

\* Both operands are declared after the boolean line in the first text and
\* before it in the second, a with a body; the module c is emitted third in
\* the one and first in the other.
C13_Witness ==
    /\ pc = "emitted"
    /\ first # None
    /\ first[1].pc = "emitted"
    /\ {<<"a">>, <<"b">>} \subseteq DOMAIN parts
    /\ parts[<<"a">>].nodes # <<>>
    /\ ModuleNames(first[1].scad)[1] = <<"c">>
    /\ ModuleNames(scad)[3] = <<"c">>
    /\ ModuleNamed(scad, <<"c">>) # <<>>

\* The text of token t before its first "=" and after it
KeyText(t) == SubSeq(t, 1, EqPos(t) - 1)
ValueText(t) == SubSeq(t, EqPos(t) + 1, Len(t))

\* The token of the list ts that decides key k: the last one `k=...`
LastFor(ts, k) ==
    ts[CHOOSE j \in DOMAIN ts :
          /\ EqPos(ts[j]) # 0 /\ KeyText(ts[j]) = k
          /\ \A h \in DOMAIN ts : (EqPos(ts[h]) # 0 /\ KeyText(ts[h]) = k) => h <= j]

\* C14: _params returns a mapping for every token list: its keys are those
\* of the tokens holding "=", tokens without "=" leave no trace; a value
\* starting with ( or [ is the vector of the first three numbers found in it,
\* (0,0,0) when fewer than three are found; any other value is a number when
\* float() reads it and the text itself otherwise.
C14_ParamsTotal ==
    pc \in {"params_done", "prim_done"} =>
        /\ DOMAIN first[1] = {KeyText(Tail(source)[j]) : j \in {h \in DOMAIN Tail(source) : EqPos(Tail(source)[h]) # 0}}
        /\ \A k \in DOMAIN first[1] :
              LET v == ValueText(LastFor(Tail(source), k))
              IN  IF v # <<>> /\ v[1] \in {"(", "["}
                  THEN /\ first[1][k].t = "vec"
                       /\ first[1][k].vec =
                              IF Len(FindNums(v, 1)) < 3 THEN <<0, 0, 0>>
                              ELSE SubSeq(FindNums(v, 1), 1, 3)
                  ELSE IF IsFloatText(v)
                  THEN first[1][k] = NumV(FloatOf(v))
                  ELSE first[1][k] = StrV(v)

\* 'a v=(1,2,3,4)': the token without "=" is skipped and the vector is made
\* of the first three of four numbers
C14_Witness ==
    /\ pc = "params_done"
    /\ Len(source) = 3
    /\ EqPos(source[2]) = 0
    /\ DOMAIN first[1] = {<<"v">>}
    /\ Len(FindNums(ValueText(source[3]), 1)) = 4
    /\ first[1][<<"v">>].vec = <<1, 2, 3>>

\* The rotate tokens of an emitted text, in the order of the text
RECURSIVE Rotations(_)
Rotations(text) ==
    IF text = <<>> THEN <<>>
    ELSE (IF Head(text).k = "rotate" THEN <<Head(text).a>> ELSE <<>>)
         \o Rotations(Tail(text))

\* The orientation a primitive line asks for: the value of its last
\* `orientation=` token in lower case, z when there is none
Orientation == OrientOf(first[1])

\* C15 (as claimed): a ROD and a CYLINDER are both emitted with exactly one
\* rotation for orientation x (the Z axis is turned onto X: 90 degrees about
\* Y), exactly one for orientation y (90 degrees about X), and none for z or
\* no orientation.  _emit_primitive_scad reads `orientation` for ROD only.
C15_OrientationHonoured ==
    (pc = "prim_done" /\ Upper(source[1]) \in {KindROD, KindCYLINDER}) =>
        Rotations(scad) =
            IF Orientation = AxisX THEN <<<<IntV(0), IntV(90), IntV(0)>>>>
            ELSE IF Orientation = AxisY THEN <<<<IntV(90), IntV(0), IntV(0)>>>>
            ELSE <<>>

\* The mapping prm without the key k
Without(prm, k) == [x \in (DOMAIN prm) \ {k} |-> prm[x]]

\* The emitted text holds a Minkowski wrapper
HasMinkowski(text) == \E j \in DOMAIN text : text[j].k = "minkowski"

\* C16: a CUBE or CYLINDER with `chamfer=0` is emitted exactly as the same
\* primitive without the chamfer key, and a text holds a Minkowski wrapper
\* if and only if the kind is CUBE or CYLINDER and the chamfer is a number
\* other than zero.
C16_ChamferZeroIsAbsent ==
    pc = "prim_done" =>
        /\ (/\ Upper(source[1]) \in {KindCUBE, KindCYLINDER}
            /\ KeyChamfer \in DOMAIN first[1]
            /\ first[1][KeyChamfer] = NumV(0))
           => /\ scad = EmitPrimitive(Prim(source[1], Without(first[1], KeyChamfer)))
              /\ ~HasMinkowski(scad)
        /\ HasMinkowski(scad) <=>
              /\ Upper(source[1]) \in {KindCUBE, KindCYLINDER}
              /\ KeyChamfer \in DOMAIN first[1]
              /\ first[1][KeyChamfer].t = "num"
              /\ first[1][KeyChamfer].num # 0

\* 'CYLINDER width=2 chamfer=0' is emitted without wrapper
C16_Witness ==
    /\ pc = "prim_done"
    /\ Upper(source[1]) = KindCYLINDER
    /\ DOMAIN first[1] = {KeyChamfer, KeyWidth}
    /\ first[1][KeyChamfer] = NumV(0)
    /\ ~HasMinkowski(scad)
    /\ \E j \in DOMAIN scad : scad[j].k = "cylinder"

\* An identifier: letters, digits and underscores, not starting with a digit
IsIdentifier(n) ==
    /\ n # <<>>
    /\ IsLetter(n[1]) \/ n[1] = "_"
    /\ \A k \in DOMAIN n : IsWordChar(n[k])

\* Every name the Model holds: keys, Part names, the names its nodes refer
\* to, Instance targets
StoredNames ==
    (DOMAIN parts)
    \cup {parts[k].name : k \in DOMAIN parts}
    \cup UNION {PartRefs(parts, k) : k \in DOMAIN parts}
    \cup {instances[k].target : k \in DOMAIN instances}

\* C17: in every state of parse and after it, every stored name is an
\* identifier, normalizing it again changes nothing, and every Part is
\* stored under its own name.
C17_NamesNormalized ==
    /\ \A n \in StoredNames : IsIdentifier(n) /\ Sanitize(n) = n
    /\ \A k \in DOMAIN parts : parts[k].name = k

\* 'USE 1-a scale=1' was read: the target is stored as p_1_a, beside a Part
\* and a boolean part with operands
C17_Witness ==
    /\ \E k \in DOMAIN instances :
          /\ instances[k].target = <<"p","_","1","_","a">>
          /\ instances[k].label = <<"U","S","E"," ","1","-","a">>
    /\ \E k \in DOMAIN parts : parts[k].is_boolean
    /\ Cardinality(StoredNames) >= 3

\* Braces open after token j of text
DepthAfter(text, j) ==
    Cardinality({h \in 1..j : text[h].k = "{"}) - Cardinality({h \in 1..j : text[h].k = "}"})

\* The statements of text at brace depth d: each ends with a `;` that closes
\* a non-empty statement or with the `}` of a block
Children(text, d) ==
    {j \in DOMAIN text :
        /\ DepthAfter(text, j) = d
        /\ IF text[j].k = ";" THEN j > 1 /\ text[j - 1].k \notin {";", "{", "}", "nl"}
           ELSE text[j].k = "}"}

\* The text holds a `//` line comment
HasComment(text) == \E j \in DOMAIN text : text[j].k \in {"cycle", "unknown_prim"}

\* C18 (as claimed): in the module of a boolean part the operator encloses
\* exactly two children, the expansion of the left operand and that of the
\* right operand, also when an operand's part has two or more body nodes
\* (modules holding a line comment are left aside).  _emit_use_scad puts the
\* translate wrapper in front of the expanded text, so it encloses only the
\* first statement and every further statement is one more child.
C18_BooleanTwoChildren ==
    pc = "emitted" =>
        \A key \in DOMAIN parts :
            (/\ parts[key].is_boolean
             /\ Len(parts[key].nodes) = 1
             /\ parts[key].nodes[1].node = "Boolean"
             /\ ~HasComment(PartModule(key)))
            => Cardinality(Children(PartModule(key), 2)) = 2

\* Kinds of the tokens that are `//` line comments
CommentKinds == {"cycle", "unknown_prim", "unknown_node", "instance_comment", "header"}

\* Token j of text lies behind a `//` on its own line: a comment token
\* precedes it with no newline in between
Hidden(text, j) ==
    \E h \in 1..(j - 1) :
        /\ text[h].k \in CommentKinds
        /\ \A g \in (h + 1)..(j - 1) : text[g].k # "nl"
        /\ text[j].k # "nl"

\* The tokens of text a reader of the file sees
Visible(text) == {j \in DOMAIN text : text[j].k \notin CommentKinds /\ ~Hidden(text, j)}

\* C19 (as claimed): in the emitted text no token is commented out by a
\* cycle marker or a placeholder in front of it on the same line, and the
\* braces the reader sees are balanced: as many `}` as `{`, never a `}`
\* before its `{`.  Boolean and Extrude wrappers are written on one line, so
\* a `//` inside them hides the closing brace.
C19_BracesOutsideComments ==
    pc = "emitted" =>
        /\ \A j \in DOMAIN scad : Hidden(scad, j) => scad[j].k \in CommentKinds
        /\ Cardinality({j \in Visible(scad) : scad[j].k = "{"})
               = Cardinality({j \in Visible(scad) : scad[j].k = "}"})
        /\ \A j \in Visible(scad) :
               Cardinality({h \in Visible(scad) : h <= j /\ scad[h].k = "}"})
                   <= Cardinality({h \in Visible(scad) : h <= j /\ scad[h].k = "{"})

\* C20 (as claimed): in every state reached by parse a part has is_boolean
\* set if and only if its body is exactly one Boolean node; a part opened by
\* PART / GROUP and filled with primitive lines is not boolean.  A boolean
\* line does not close the open part and PART reopens a boolean part as it
\* is, so primitives are appended behind the Boolean node.
C20_BooleanFlagMatchesBody ==
    \A key \in DOMAIN parts :
        parts[key].is_boolean <=>
            (Len(parts[key].nodes) = 1 /\ parts[key].nodes[1].node = "Boolean")

\* The references a part's body holds: its Use nodes and the operands of
\* its Boolean nodes
UsesOf(ps, key) ==
    UNION {IF ps[key].nodes[k].node = "Use" THEN {ps[key].nodes[k]}
           ELSE IF ps[key].nodes[k].node = "Boolean"
           THEN {ps[key].nodes[k].left, ps[key].nodes[k].right}
           ELSE {} : k \in DOMAIN ps[key].nodes}

\* C21: whatever identifiers are in progress when _emit_use_scad is entered
\* for a reference of the Model, the reference is replaced by the cycle
\* marker exactly when its target is among them, and an expansion that
\* returns leaves the set as it found it; the two operands of a boolean part
\* that name the same ordinary part are both expanded, with no marker in the
\* module.
C21_MarkerOnlyForAncestors ==
    pc = "emitted" =>
        /\ \A key \in DOMAIN parts : \A u \in UsesOf(parts, key) :
              \A V \in SUBSET (DOMAIN parts) :
                  \A r \in {EmitUse(parts, u, TRUE, V, MaxDepth)} :
                      ~Failed(r) =>
                          /\ r.vis = V
                          /\ (r.out = <<Tok("cycle", u.name, <<>>)>>) <=> (u.name \in V)
        /\ \A key \in DOMAIN parts :
              (/\ Len(parts[key].nodes) = 1
               /\ parts[key].is_boolean
               /\ parts[key].nodes[1].node = "Boolean"
               /\ parts[key].nodes[1].left.name = parts[key].nodes[1].right.name
               /\ parts[key].nodes[1].left.name \in DOMAIN parts
               /\ ~parts[parts[key].nodes[1].left.name].is_boolean)
              => \A j \in DOMAIN PartModule(key) : PartModule(key)[j].k # "cycle"

\* 'PART a:' 'CUBE width=2 chamfer=1' 'INTERSECT a a AS b' was emitted: the
\* module b holds the cube of a twice and no marker
C21_Witness ==
    /\ pc = "emitted"
    /\ {<<"a">>, <<"b">>} \subseteq DOMAIN parts
    /\ ~parts[<<"a">>].is_boolean
    /\ parts[<<"b">>].is_boolean
    /\ Len(parts[<<"b">>].nodes) = 1
    /\ parts[<<"b">>].nodes[1].left.name = <<"a">>
    /\ parts[<<"b">>].nodes[1].right.name = <<"a">>
    /\ Cardinality({j \in DOMAIN PartModule(<<"b">>) : PartModule(<<"b">>)[j].k = "cube"}) = 2
    /\ \A j \in DOMAIN PartModule(<<"b">>) : PartModule(<<"b">>)[j].k # "cycle"

\* The lines of BoolLines that the pattern of line 338 matches
WellFormedBoolLines == {toks \in BoolLines : Len(toks) >= 5 /\ BoolMatch(Tail(toks))}

\* C22: a well-formed `UNION A B AS C`, `CUT A B AS C` or `INTERSECT A B AS
\* C` line leaves part C boolean with a body of exactly one Boolean node
\* (union, difference, intersection; left = A, right = B, both untransformed)
\* whatever C held before; no other part is added or changed, and the
\* instance list, the open part and the pending extrude height stay as they
\* were.
C22_BooleanReplacesBody ==
    [][\A toks \in WellFormedBoolLines :
         BoolLine(toks) =>
            LET c == Sanitize(WordPrefix(toks[5]))
            IN  /\ DOMAIN parts' = (DOMAIN parts) \cup {c}
                /\ parts'[c].name = c
                /\ parts'[c].is_boolean
                /\ Len(parts'[c].nodes) = 1
                /\ parts'[c].nodes[1].node = "Boolean"
                /\ parts'[c].nodes[1].op =
                       (IF Upper(toks[1]) = <<"U","N","I","O","N">> THEN "union"
                        ELSE IF Upper(toks[1]) = <<"C","U","T">> THEN "difference"
                        ELSE "intersection")
                /\ parts'[c].nodes[1].left
                       = Use(toks[2], VecV(<<0, 0, 0>>), VecV(<<0, 0, 0>>), None)
                /\ parts'[c].nodes[1].right
                       = Use(toks[3], VecV(<<0, 0, 0>>), VecV(<<0, 0, 0>>), None)
                /\ \A k \in (DOMAIN parts) \ {c} : parts'[k] = parts[k]
                /\ instances' = instances
                /\ cur' = cur
                /\ pending_extrude' = pending_extrude]_vars

\* A boolean line targeting the open part a was read while an Instance was
\* stored and a height was pending: a is boolean with one node, still open,
\* the height still pending, the Instance still there
C22_Witness ==
    /\ pc = "parse"
    /\ cur = Some(<<"a">>)
    /\ pending_extrude # None
    /\ instances # <<>>
    /\ parts[<<"a">>].is_boolean
    /\ Len(parts[<<"a">>].nodes) = 1
    /\ parts[<<"a">>].nodes[1].node = "Boolean"
    /\ parts[<<"a">>].nodes[1].left.name = <<"c">>

\* The primitive a node carries: the node itself, or the child of an Extrude
PrimOf(n) == IF n.node = "Extrude" THEN n.child2d ELSE n

\* C23: a `PART n:` or `GROUP n:` line leaves every part that existed as it
\* was (the part that was open keeps its nodes), adds n with an empty body
\* when it was absent, and makes n the open part; the step is the same
\* whichever of the two keywords is written.  A primitive line read while a
\* part is open appends one node carrying that primitive at the end of the
\* open part's body and changes no other part; the open part stays open.
C23_PartGroupOpen ==
    [][/\ \A toks \in PartLines :
             (Len(toks) = 2 /\ PartLine(toks)) =>
                LET n == Sanitize(RStripColon(toks[2]))
                IN  /\ cur' = Some(n)
                    /\ DOMAIN parts' = (DOMAIN parts) \cup {n}
                    /\ \A k \in DOMAIN parts : parts'[k] = parts[k]
                    /\ n \notin DOMAIN parts =>
                          parts'[n] = [name |-> n, nodes |-> <<>>, is_boolean |-> FALSE]
                    /\ instances' = instances
                    /\ PartLine(<<<<"P","A","R","T">>, toks[2]>>)
                    /\ PartLine(<<<<"G","R","O","U","P">>, toks[2]>>)
       /\ \A toks \in PrimLines :
             (PrimLine(toks) /\ cur # None) =>
                /\ cur' = cur
                /\ DOMAIN parts' = DOMAIN parts
                /\ \A k \in (DOMAIN parts) \ {cur[1]} : parts'[k] = parts[k]
                /\ Len(parts'[cur[1]].nodes) = Len(parts[cur[1]].nodes) + 1
                /\ SubSeq(parts'[cur[1]].nodes, 1, Len(parts[cur[1]].nodes))
                       = parts[cur[1]].nodes
                /\ PrimOf(parts'[cur[1]].nodes[Len(parts'[cur[1]].nodes)])
                       = [node |-> "Prim", kind |-> Upper(toks[1]),
                          params |-> Params(Tail(toks))]]_vars

\* `PART a:` was opened, filled, left for `GROUP b:` and opened again: a
\* keeps its node and is the open part, b is untouched
C23_Witness ==
    /\ pc = "parse"
    /\ i = 4
    /\ cur = Some(<<"a">>)
    /\ order = <<<<"a">>, <<"b">>>>
    /\ Len(parts[<<"a">>].nodes) = 1
    /\ parts[<<"a">>].nodes[1].node = "Prim"
    /\ parts[<<"b">>].nodes = <<>>

\* C24 (as claimed): an EXTRUDE line adds no node and makes the height it
\* names pending; the next primitive line of the open part is appended as
\* one Extrude node of that height around the primitive and clears the
\* pending height, a primitive line read with no height pending is appended
\* as a plain Prim; and the pending height does not survive a change of the
\* open part.  parse keeps pending_extrude across PART / GROUP lines, and
\* `height=5:` is not read as 5.
C24_ExtrudeNextPrimitiveOnly ==
    [][/\ \A toks \in ExtrudeLines :
             ExtrudeLine(toks) =>
                /\ parts' = parts
                /\ instances' = instances
                /\ pending_extrude' = Some(5)
       /\ \A toks \in PrimLines :
             (PrimLine(toks) /\ cur # None) =>
                /\ pending_extrude' = None
                /\ parts'[cur[1]].nodes =
                      Append(parts[cur[1]].nodes,
                             IF pending_extrude # None
                             THEN [node |-> "Extrude", height |-> pending_extrude[1],
                                   child2d |-> Prim(toks[1], Params(Tail(toks)))]
                             ELSE Prim(toks[1], Params(Tail(toks))))
       /\ \A toks \in PartLines :
             (PartLine(toks) /\ cur' # cur) => pending_extrude' = None]_vars

\* C25 (as claimed): in every Model of parse the child of every Extrude node
\* is one Prim of the 2-D kind CIRCLE, never a solid.  parse wraps whatever
\* primitive line follows EXTRUDE without looking at its kind.
C25_ExtrudeChildIs2D ==
    \A key \in DOMAIN parts : \A k \in DOMAIN parts[key].nodes :
        parts[key].nodes[k].node = "Extrude" =>
            /\ parts[key].nodes[k].child2d.node = "Prim"
            /\ parts[key].nodes[k].child2d.kind = <<"C","I","R","C","L","E">>

\* C26: a `MOVE t by=v` line closes the open part and appends one Instance
\* of t with translate v, no rotation and no scale; a `ROTATE t by=v` line
\* does the same with rotate v and no translation; neither changes a part.
\* A primitive line read while no part is open changes neither the parts nor
\* the instances, and only a PART / GROUP line opens a part again.
C26_MoveRotateTopLevel ==
    [][/\ \A toks \in MoveLines :
             (Len(toks) >= 3 /\ MoveLine(toks)) =>
                /\ cur' = None
                /\ parts' = parts
                /\ Len(instances') = Len(instances) + 1
                /\ SubSeq(instances', 1, Len(instances)) = instances
                /\ instances'[Len(instances')].target = Sanitize(toks[2])
                /\ instances'[Len(instances')].translate = VecV(SafeVec3Text(ValueText(toks[3])))
                /\ instances'[Len(instances')].rotate = VecV(<<0, 0, 0>>)
                /\ instances'[Len(instances')].scale = None
       /\ \A toks \in RotateLines :
             (Len(toks) >= 3 /\ RotateLine(toks)) =>
                /\ cur' = None
                /\ parts' = parts
                /\ Len(instances') = Len(instances) + 1
                /\ SubSeq(instances', 1, Len(instances)) = instances
                /\ instances'[Len(instances')].target = Sanitize(toks[2])
                /\ instances'[Len(instances')].translate = VecV(<<0, 0, 0>>)
                /\ instances'[Len(instances')].rotate = VecV(SafeVec3Text(ValueText(toks[3])))
                /\ instances'[Len(instances')].scale = None
       /\ \A toks \in PrimLines :
             (PrimLine(toks) /\ cur = None) => (parts' = parts /\ instances' = instances)
       /\ (cur = None /\ cur' # None) => \E toks \in PartLines : PartLine(toks)]_vars

\* 'PART a:' 'CUBE ...' 'MOVE a by=(1,2,3)' and one more line were read: a
\* keeps its one node, no part is open, the Instance holds the vector
C26_Witness ==
    /\ pc = "parse"
    /\ i = 4
    /\ cur = None
    /\ <<"a">> \in DOMAIN parts
    /\ Len(parts[<<"a">>].nodes) = 1
    /\ Len(instances) = 1
    /\ instances[1].translate = VecV(<<1, 2, 3>>)
    /\ instances[1].rotate = VecV(<<0, 0, 0>>)
    /\ instances[1].label = <<"M","O","V","E"," ","a">>

\* The names called by `name();` in the body of the n-th module of text,
\* calls behind a `//` left out; the `assembly();` that ends the text is not
\* part of a body
CallsOf(text, n) ==
    LET seg == ModuleSegment(text, n)
        body == IF n = ModuleCount(text) THEN SubSeq(seg, 1, Len(seg) - 2) ELSE seg
    IN  {body[j].s : j \in {h \in DOMAIN body : body[h].k = "call" /\ ~Hidden(body, h)}}

\* The names called by the bodies of the modules named in S
CallsFrom(text, S) ==
    UNION {CallsOf(text, n) : n \in {m \in 1..ModuleCount(text) : ModuleNames(text)[m] \in S}}

\* Names reached from the names in S through n or fewer further calls
RECURSIVE CallReachN(_, _, _)
CallReachN(text, S, n) ==
    IF n = 0 THEN S
    ELSE CallReachN(text, S \cup CallsFrom(text, S), n - 1)

\* Names reached from the body of the n-th module through one or more calls
CallReach(text, n) == CallReachN(text, CallsOf(text, n), ModuleCount(text))

\* C27 (as claimed): in every emitted text no module body reaches, through
\* calls `name();`, a call of its own module.
C27_ModuleGraphAcyclic ==
    pc = "emitted" =>
        \A n \in 1..ModuleCount(scad) : ModuleNames(scad)[n] \notin CallReach(scad, n)

====
